---- MODULE Spec2Model ----
(***************************************************************************)
(* A model of CardHatch.py: the text wrapper (wrap_text), the back-page    *)
(* reordering (reorder_for_back), the qty validation of start_process and  *)
(* the geometry, quantity expansion and pagination of                      *)
(* generate_flashcard_pdf.                                                 *)
(*                                                                         *)
(* Numbers are exact integers.  A length in millimetres is counted in      *)
(* twentieths of a millimetre (85.6 mm is 1712), the inputs being multiples*)
(* of a tenth, so that leftover / 2 is exact.  A length in points is       *)
(* counted in halves of a millionth of a point, so that mm(), a            *)
(* multiplication by 2.83465, is a multiplication by 283465.  Rounding of  *)
(* floating point numbers is modelled where it changes an integer result,  *)
(* the floor division of the rows per page, and nowhere else.  Python      *)
(* lists are sequences; the empty cell None of a page list is the value    *)
(* None below.                                                             *)
(***************************************************************************)
EXTENDS Integers, Sequences, FiniteSets, TLC

VARIABLES
    pc,            \* position of the running function
    settings,      \* the settings dict handed to generate_flashcard_pdf
    data,          \* the loaded rows (DataFrame), one record per row
    layout,        \* cards_per_col, cards_per_page, offsets of generate_flashcard_pdf
    card_indices,  \* the expanded card sequence
    page_indices,  \* the front list of the current sheet
    back_order,    \* the back list of the current sheet
    page,          \* the loop variable of the page loop
    sheets,        \* the sheets laid out so far: front list, back list
    canvas,        \* the drawing operations issued on the canvas, in order
    wrap_args,     \* arguments of the wrap_text call
    wrap_ret,      \* what wrap_text returned
    invalid_rows,  \* the notices collected by the qty validation
    error,         \* the exception raised, "" when none
    gui,           \* the entry fields and check boxes that start_process reads
    disk,          \* the input file, and the settings file that start_process writes
    columns,       \* data.columns of the loaded rows
    messagebox     \* the message boxes shown, in order

\* the state that only start_process touches
start_vars == << gui, disk, columns, messagebox >>

\* the state that start_process leaves to generate_flashcard_pdf
draw_vars == << layout, card_indices, page_indices, back_order, page, sheets, canvas,
               wrap_args, wrap_ret, error >>

vars == << pc, settings, data, layout, card_indices, page_indices, back_order,
           page, sheets, canvas, wrap_args, wrap_ret, invalid_rows, error,
           gui, disk, columns, messagebox >>

\* ---------------------------------------------------------------- bounds
MaxRows == 2
MaxCols == 2
MaxIdx  == 1
MaxRecords  == 2     \* rows of the data
MaxQty      == 2     \* largest qty of a row
MaxMult     == 2     \* largest quantity_multiplier
MaxMargin   == 1     \* largest margin, in steps of 5 mm
MaxPerRow   == 2     \* largest cards_per_row
MaxTextRows == 2     \* rows of the data when the texts vary
MaxLen      == 4     \* characters of a text
MaxFontSize == 2
MaxWidth    == 3
MaxLines    == 2
MaxEntryLen == 5     \* characters of the multiplier entry

\* ------------------------------------------------------- Python helpers
None == -1

Min(a, b) == IF a < b THEN a ELSE b
Max(a, b) == IF a > b THEN a ELSE b

\* s[a:b] of a Python list, for 0 <= a; indices past the end are clipped
Slice(s, a, b) ==
    LET lo == Min(a, Len(s))
        hi == Max(lo, Min(b, Len(s)))
    IN  [i \in 1..(hi - lo) |-> s[lo + i]]

\* s[::-1]
Reversed(s) == [i \in 1..Len(s) |-> s[Len(s) + 1 - i]]

\* ------------------------------------------------------ reorder_for_back
\* the rows r = from, from+1, ... of the long branch, each reversed
RECURSIVE LongRows(_, _, _, _)
LongRows(pi, per_row, per_col, r) ==
    IF r >= per_col THEN << >>
    ELSE Reversed(Slice(pi, r * per_row, (r + 1) * per_row))
         \o LongRows(pi, per_row, per_col, r + 1)

\* the rows r = from, from-1, ..., 0 of the else branch, each as it is
RECURSIVE ShortRows(_, _, _)
ShortRows(pi, per_row, r) ==
    IF r < 0 THEN << >>
    ELSE Slice(pi, r * per_row, (r + 1) * per_row)
         \o ShortRows(pi, per_row, r - 1)

\* the two branches exchanged
reorder_for_back_swapped(pi, per_row, per_col, mode) ==
    IF mode = "long"
    THEN ShortRows(pi, per_row, per_col - 1)
    ELSE LongRows(pi, per_row, per_col, 0)

\* both loops run over range(cards_per_row) instead of range(cards_per_col)
reorder_for_back_rowcount(pi, per_row, per_col, mode) ==
    IF mode = "long"
    THEN LongRows(pi, per_row, per_row, 0)
    ELSE ShortRows(pi, per_row, per_row - 1)

\* both loops stop one row early: range(cards_per_col - 1)
reorder_for_back_rowshort(pi, per_row, per_col, mode) ==
    IF mode = "long"
    THEN LongRows(pi, per_row, per_col - 1, 0)
    ELSE ShortRows(pi, per_row, per_col - 2)

reorder_for_back(pi, per_row, per_col, mode) ==
    IF mode = "long"
    THEN LongRows(pi, per_row, per_col, 0)
    ELSE ShortRows(pi, per_row, per_col - 1)

\* -------------------------------------------------------------- wrap_text
\* A text is a sequence of characters.  CR and LF are the characters "\r" and
\* "\n"; str.strip and str.split take the blank, CR and LF as whitespace.
CR == "\r"
LF == "\n"
IsSpace(ch) == ch \in {" ", CR, LF}

\* stringWidth: the sum of the glyph widths times the font size; the letter
\* "a" is two units wide, the narrow "i", the blank and the full stop one
CharWidth(ch) == IF ch = "a" THEN 2 ELSE IF ch \in {CR, LF} THEN 0 ELSE 1

RECURSIVE SumWidth(_)
SumWidth(s) == IF s = << >> THEN 0 ELSE CharWidth(Head(s)) + SumWidth(Tail(s))

stringWidth(s, font_size) == SumWidth(s) * font_size

\* text.replace("\r\n", "\n")
RECURSIVE ReplaceCRLF(_)
ReplaceCRLF(t) ==
    IF t = << >> THEN << >>
    ELSE IF Len(t) >= 2 /\ t[1] = CR /\ t[2] = LF
         THEN << LF >> \o ReplaceCRLF(SubSeq(t, 3, Len(t)))
         ELSE << Head(t) >> \o ReplaceCRLF(Tail(t))

\* text.split("\n"): cur is the piece being read
RECURSIVE SplitLF(_, _)
SplitLF(t, cur) ==
    IF t = << >> THEN << cur >>
    ELSE IF Head(t) = LF THEN << cur >> \o SplitLF(Tail(t), << >>)
         ELSE SplitLF(Tail(t), Append(cur, Head(t)))

\* line.strip()
RECURSIVE LStrip(_)
LStrip(s) == IF s # << >> /\ IsSpace(Head(s)) THEN LStrip(Tail(s)) ELSE s

RECURSIVE RStrip(_)
RStrip(s) ==
    IF s # << >> /\ IsSpace(s[Len(s)]) THEN RStrip(SubSeq(s, 1, Len(s) - 1)) ELSE s

Strip(s) == RStrip(LStrip(s))

\* line.split(): the runs of non-whitespace characters
RECURSIVE SplitWords(_, _)
SplitWords(s, cur) ==
    IF s = << >> THEN (IF cur = << >> THEN << >> ELSE << cur >>)
    ELSE IF IsSpace(Head(s))
         THEN (IF cur = << >> THEN << >> ELSE << cur >>) \o SplitWords(Tail(s), << >>)
         ELSE SplitWords(Tail(s), Append(cur, Head(s)))

\* s[:n] of a Python sequence; a negative n counts from the end
SliceTo(s, n) ==
    IF n >= 0 THEN SubSeq(s, 1, Min(n, Len(s)))
    ELSE SubSeq(s, 1, Max(0, Len(s) + n))

\* int(a / b) for b > 0: the quotient rounded towards zero
IntDiv(a, b) == IF a >= 0 THEN a \div b ELSE -((-a) \div b)

Ellipsis == << ".", ".", "." >>

\* final_lines[-1] = final_lines[-1][: int(max_width_pt / font_size)] + "..."
TruncateLast(final_lines, a) ==
    [final_lines EXCEPT ![Len(final_lines)] =
        SliceTo(@, IntDiv(a.max_width_pt, a.font_size)) \o Ellipsis]

Returned(lines, overflowed) ==
    [returned |-> TRUE, lines |-> lines, overflowed |-> overflowed, raised |-> FALSE]

\* the test made after each final_lines.append(current_line)
LimitReached(final_lines, a) == Len(final_lines) >= a.max_lines

\* the return statements taken when the limit is reached inside the loops
ReturnAtLimit(final_lines, a) ==
    IF a.truncate
    THEN Returned(SliceTo(TruncateLast(final_lines, a), a.max_lines), FALSE)
    ELSE Returned(SliceTo(final_lines, a.max_lines), TRUE)

\* the loop with the width of the word measured in place of test_line
RECURSIVE WordLoop_wordonly(_, _, _, _, _)
WordLoop_wordonly(words, i, current_line, final_lines, a) ==
    IF i > Len(words)
    THEN [returned |-> FALSE, current_line |-> current_line, final_lines |-> final_lines]
    ELSE LET word == words[i]
             test_line == Strip(current_line \o << " " >> \o word)
         IN  IF stringWidth(word, a.font_size) <= a.max_width_pt
             THEN WordLoop_wordonly(words, i + 1, test_line, final_lines, a)
             ELSE IF current_line # << >>
                  THEN LET appended == Append(final_lines, current_line)
                       IN  IF LimitReached(appended, a)
                           THEN ReturnAtLimit(appended, a)
                           ELSE WordLoop_wordonly(words, i + 1, word, appended, a)
                  ELSE WordLoop_wordonly(words, i + 1, word, final_lines, a)

\* for word in words[i..]: the loop either returns or leaves current_line
\* and final_lines to the code behind it
RECURSIVE WordLoop(_, _, _, _, _)
WordLoop(words, i, current_line, final_lines, a) ==
    IF i > Len(words)
    THEN [returned |-> FALSE, current_line |-> current_line, final_lines |-> final_lines]
    ELSE LET word == words[i]
             test_line == Strip(current_line \o << " " >> \o word)
         IN  IF stringWidth(test_line, a.font_size) <= a.max_width_pt
             THEN WordLoop(words, i + 1, test_line, final_lines, a)
             ELSE IF current_line # << >>
                  THEN LET appended == Append(final_lines, current_line)
                       IN  IF LimitReached(appended, a)
                           THEN ReturnAtLimit(appended, a)
                           ELSE WordLoop(words, i + 1, word, appended, a)
                  ELSE WordLoop(words, i + 1, word, final_lines, a)

\* the slices [:max_lines] of the last statements forgotten
AfterLines_unsliced(final_lines, a) ==
    IF Len(final_lines) > a.max_lines
    THEN IF a.truncate
         THEN Returned(TruncateLast(final_lines, a), FALSE)
         ELSE Returned(final_lines, TRUE)
    ELSE Returned(final_lines, FALSE)

\* the statements behind the loops
AfterLines(final_lines, a) ==
    IF Len(final_lines) > a.max_lines
    THEN IF a.truncate
         THEN LET cut == SliceTo(final_lines, a.max_lines)
              IN  IF cut = << >>
                  THEN [returned |-> TRUE, lines |-> << >>, overflowed |-> FALSE,
                        raised |-> TRUE]                      \* IndexError
                  ELSE Returned(TruncateLast(cut, a), FALSE)
         ELSE Returned(SliceTo(final_lines, a.max_lines), TRUE)
    ELSE Returned(final_lines, FALSE)

\* for line in explicit_lines[k..]
RECURSIVE LineLoop(_, _, _, _)
LineLoop(explicit_lines, k, final_lines, a) ==
    IF k > Len(explicit_lines) THEN AfterLines(final_lines, a)
    ELSE LET line == explicit_lines[k]
         IN  IF Strip(line) = << >>
             THEN LineLoop(explicit_lines, k + 1, Append(final_lines, << >>), a)
             ELSE LET w == WordLoop(SplitWords(line, << >>), 1, << >>, final_lines, a)
                  IN  IF w.returned THEN w
                      ELSE IF w.current_line # << >>
                           THEN LET appended == Append(w.final_lines, w.current_line)
                                IN  IF LimitReached(appended, a)
                                    THEN ReturnAtLimit(appended, a)
                                    ELSE LineLoop(explicit_lines, k + 1, appended, a)
                           ELSE LineLoop(explicit_lines, k + 1, w.final_lines, a)

\* a: text, font_size, max_width_pt, max_lines, truncate
wrap_text(a) ==
    LET r == LineLoop(SplitLF(ReplaceCRLF(a.text), << >>), 1, << >>, a)
    IN  [lines |-> r.lines, overflowed |-> r.overflowed, raised |-> r.raised]

\* ------------------------------------------------------------ idle values
NoSettings == [cards_per_row |-> 0]
NoLayout   == [cards_per_col |-> 0, cards_per_page |-> 0]
NoWrapArgs == [text |-> << >>, font_size |-> 1, max_width_pt |-> 0, max_lines |-> 0,
               truncate |-> FALSE]
NoWrapRet  == [lines |-> << >>, overflowed |-> FALSE, raised |-> FALSE]

NoGui      == [file_path |-> ""]
NoDisk     == [settings_written |-> FALSE]

\* start_process has not run: generate_flashcard_pdf, wrap_text or
\* reorder_for_back is called directly
StartIdle ==
    /\ gui = NoGui
    /\ disk = NoDisk
    /\ columns = {}
    /\ messagebox = << >>

\* an exception: its kind and the row it names (0 when it names none)
Raise(kind, row) == [kind |-> kind, row |-> row]
NoError == Raise("none", 0)

\* ------------------------------------------------- generate_flashcard_pdf
\* mm(val): val in twentieths of a millimetre, the result in half millionths
\* of a point
mm(val) == val * 283465

\* a font size or a length given in points
Pt(n) == n * 2000000

\* ---------------------------------------------------- floats: a // b
\* page_h and card_height are floats: the double nearest to the decimal that
\* was entered.  A decimal of d tenths of a millimetre lies in the binade
\* 2^E <= d/10 < 2^(E+1); the double differs from it by j tenths of the last
\* place 2^(E-52), where j is the residue of least magnitude of -d * 2^(52-E)
\* modulo 10.  The difference is counted in tenths of 2^-56.
RECURSIVE Pow2(_)
Pow2(n) == IF n <= 0 THEN 1 ELSE 2 * Pow2(n - 1)

\* E + 4 for a decimal of d >= 1 tenths, from the guess e on
RECURSIVE Exp4From(_, _)
Exp4From(d, e) == IF 10 * Pow2(e + 1) <= 16 * d THEN Exp4From(d, e + 1) ELSE e

\* 2^k modulo 10, k >= 1
Pow2Mod10(k) == IF k % 4 = 0 THEN 6 ELSE IF k % 4 = 1 THEN 2 ELSE IF k % 4 = 2 THEN 4 ELSE 8

\* float(d/10) - d/10
FloatErr(d) ==
    IF d <= 0 THEN 0
    ELSE LET e == Exp4From(d, 0)
             r == ((d % 10) * Pow2Mod10(56 - e)) % 10
             j == IF r <= 4 THEN 0 - r ELSE 10 - r
         IN  j * Pow2(e)

\* a // b of the doubles of two decimals a and b > 0 (in the same unit) with
\* the differences ea and eb: the floor of the quotient of the doubles, which
\* is one less than the floor of the quotient of the decimals when b divides
\* a and the double of a is less than the multiple of the double of b
FloorDivFloat(a, ea, b, eb) ==
    LET q == a \div b
    IN  IF a % b = 0 /\ ea - q * eb < 0 THEN q - 1 ELSE q

\* int((page_h - margin_top - margin_bottom) // card_height); the margins of
\* the settings drawn are multiples of 0.5 mm, which are doubles, so that the
\* subtractions are exact and the difference of page_h is that of the result
CardsPerCol(s) ==
    FloorDivFloat(s.page_h - s.margin_top - s.margin_bottom, FloatErr(s.page_h \div 2),
                  s.card_height, FloatErr(s.card_height \div 2))

\* the geometry block without the test of the grid width
Geometry_heightonly(s) ==
    LET cards_per_col  == CardsPerCol(s)
        cards_per_page == s.cards_per_row * cards_per_col
        grid_width     == s.cards_per_row * s.card_width
        grid_height    == cards_per_col * s.card_height
        too_large      == grid_height + s.margin_top + s.margin_bottom > s.page_h
        none_fits      == cards_per_col <= 0 \/ s.cards_per_row <= 0
        leftover_width  == s.page_w - grid_width - s.margin_left - s.margin_right
        leftover_height == s.page_h - grid_height - s.margin_top - s.margin_bottom
        offset_left    == s.margin_left + leftover_width \div 2
        offset_top     == s.margin_top + leftover_height \div 2
        passed         == ~too_large /\ ~none_fits
    IN  [cards_per_col |-> cards_per_col, cards_per_page |-> cards_per_page,
         grid_width |-> grid_width, grid_height |-> grid_height,
         raised |-> IF too_large THEN "grid_too_large"
                    ELSE IF none_fits THEN "card_too_large" ELSE "none",
         offset_left |-> IF passed THEN offset_left ELSE 0,
         offset_top |-> IF passed THEN offset_top ELSE 0,
         offset_left_pt |-> IF passed THEN mm(offset_left) ELSE 0,
         offset_top_pt |-> IF passed THEN mm(offset_top) ELSE 0]

\* the test of the grid made without the margins
Geometry_nomargins(s) ==
    LET cards_per_col  == CardsPerCol(s)
        cards_per_page == s.cards_per_row * cards_per_col
        grid_width     == s.cards_per_row * s.card_width
        grid_height    == cards_per_col * s.card_height
        too_large      == grid_width > s.page_w \/ grid_height > s.page_h
        none_fits      == cards_per_col <= 0 \/ s.cards_per_row <= 0
        leftover_width  == s.page_w - grid_width - s.margin_left - s.margin_right
        leftover_height == s.page_h - grid_height - s.margin_top - s.margin_bottom
        offset_left    == s.margin_left + leftover_width \div 2
        offset_top     == s.margin_top + leftover_height \div 2
        passed         == ~too_large /\ ~none_fits
    IN  [cards_per_col |-> cards_per_col, cards_per_page |-> cards_per_page,
         grid_width |-> grid_width, grid_height |-> grid_height,
         raised |-> IF too_large THEN "grid_too_large"
                    ELSE IF none_fits THEN "card_too_large" ELSE "none",
         offset_left |-> IF passed THEN offset_left ELSE 0,
         offset_top |-> IF passed THEN offset_top ELSE 0,
         offset_left_pt |-> IF passed THEN mm(offset_left) ELSE 0,
         offset_top_pt |-> IF passed THEN mm(offset_top) ELSE 0]

\* the offsets without the margins: the leftover alone is halved
Geometry_offsetsnomargin(s) ==
    LET cards_per_col  == CardsPerCol(s)
        cards_per_page == s.cards_per_row * cards_per_col
        grid_width     == s.cards_per_row * s.card_width
        grid_height    == cards_per_col * s.card_height
        too_large      == \/ grid_width + s.margin_left + s.margin_right > s.page_w
                          \/ grid_height + s.margin_top + s.margin_bottom > s.page_h
        none_fits      == cards_per_col <= 0 \/ s.cards_per_row <= 0
        leftover_width  == s.page_w - grid_width - s.margin_left - s.margin_right
        leftover_height == s.page_h - grid_height - s.margin_top - s.margin_bottom
        offset_left    == leftover_width \div 2
        offset_top     == leftover_height \div 2
        passed         == ~too_large /\ ~none_fits
    IN  [cards_per_col |-> cards_per_col, cards_per_page |-> cards_per_page,
         grid_width |-> grid_width, grid_height |-> grid_height,
         raised |-> IF too_large THEN "grid_too_large"
                    ELSE IF none_fits THEN "card_too_large" ELSE "none",
         offset_left |-> IF passed THEN offset_left ELSE 0,
         offset_top |-> IF passed THEN offset_top ELSE 0,
         offset_left_pt |-> IF passed THEN mm(offset_left) ELSE 0,
         offset_top_pt |-> IF passed THEN mm(offset_top) ELSE 0]


\* cards_per_col, cards_per_page, the two checks and the centering offsets;
\* raised names the ValueError of the first failing check, and the offsets,
\* which are not computed then, are left 0
Geometry(s) ==
    LET cards_per_col  == CardsPerCol(s)
        cards_per_page == s.cards_per_row * cards_per_col
        grid_width     == s.cards_per_row * s.card_width
        grid_height    == cards_per_col * s.card_height
        too_large      == \/ grid_width + s.margin_left + s.margin_right > s.page_w
                          \/ grid_height + s.margin_top + s.margin_bottom > s.page_h
        none_fits      == cards_per_col <= 0 \/ s.cards_per_row <= 0
        leftover_width  == s.page_w - grid_width - s.margin_left - s.margin_right
        leftover_height == s.page_h - grid_height - s.margin_top - s.margin_bottom
        offset_left    == s.margin_left + leftover_width \div 2
        offset_top     == s.margin_top + leftover_height \div 2
        passed         == ~too_large /\ ~none_fits
    IN  [cards_per_col |-> cards_per_col, cards_per_page |-> cards_per_page,
         grid_width |-> grid_width, grid_height |-> grid_height,
         raised |-> IF too_large THEN "grid_too_large"
                    ELSE IF none_fits THEN "card_too_large" ELSE "none",
         offset_left |-> IF passed THEN offset_left ELSE 0,
         offset_top |-> IF passed THEN offset_top ELSE 0,
         offset_left_pt |-> IF passed THEN mm(offset_left) ELSE 0,
         offset_top_pt |-> IF passed THEN mm(offset_top) ELSE 0]

\* [idx] * qty: empty when qty <= 0
Repeat(idx, qty) == [i \in 1..qty |-> idx]

\* the loop without the multiplication by quantity_multiplier
RECURSIVE ExpandFrom_nomultiplier(_, _, _)
ExpandFrom_nomultiplier(rows, idx, s) ==
    IF idx >= Len(rows) THEN << >>
    ELSE LET qty == IF s.use_qty_column THEN rows[idx + 1].qty ELSE 1
         IN  Repeat(idx, qty) \o ExpandFrom_nomultiplier(rows, idx + 1, s)

\* for idx in range(idx, len(data)): card_indices.extend([idx] * qty)
RECURSIVE ExpandFrom(_, _, _)
ExpandFrom(rows, idx, s) ==
    IF idx >= Len(rows) THEN << >>
    ELSE LET qty == IF s.use_qty_column THEN rows[idx + 1].qty ELSE 1
         IN  Repeat(idx, qty * s.quantity_multiplier) \o ExpandFrom(rows, idx + 1, s)

\* math.ceil(num_cards / cards_per_page), cards_per_page > 0
NumPages(num_cards, cards_per_page) == (num_cards + cards_per_page - 1) \div cards_per_page

\* the slice of the page without the padding loop
PageIndices_unpadded(indices, pg, cards_per_page) ==
    LET page_start == pg * cards_per_page
        page_end   == Min(page_start + cards_per_page, Len(indices))
    IN  Slice(indices, page_start, page_end)

\* the slice of the page, padded with None to cards_per_page cells
PageIndices(indices, pg, cards_per_page) ==
    LET page_start == pg * cards_per_page
        page_end   == Min(page_start + cards_per_page, Len(indices))
        cut        == Slice(indices, page_start, page_end)
    IN  [i \in 1..Max(cards_per_page, Len(cut)) |->
            IF i <= Len(cut) THEN cut[i] ELSE None]

\* one operation on the canvas; sheet and side tell the page it is drawn on
Op(op, sheet, side, idx, x, y, w, h, text) ==
    [op |-> op, sheet |-> sheet, side |-> side, idx |-> idx,
     x |-> x, y |-> y, w |-> w, h |-> h, text |-> text]

SideSettings(s, side) ==
    IF side = "front"
    THEN [font_size |-> s.front_font_size, bar_top |-> s.front_color_bar_top,
          bar_bottom |-> s.front_color_bar_bottom]
    ELSE [font_size |-> s.back_font_size, bar_top |-> s.back_color_bar_top,
          bar_bottom |-> s.back_color_bar_bottom]

\* the arguments of the wrap_text call for one card
CardWrapArgs(s, rows, data_idx, side) ==
    LET f == SideSettings(s, side)
        line_height == (f.font_size * 12) \div 10
        max_text_height == mm(s.card_height) - mm(160)
                           - (IF f.bar_top THEN mm(100) ELSE 0)
                           - (IF f.bar_bottom THEN mm(100) ELSE 0)
    IN  [text |-> IF side = "front" THEN rows[data_idx + 1].front
                  ELSE rows[data_idx + 1].back,
         font_size |-> f.font_size,
         max_width_pt |-> mm(s.card_width) - mm(160),
         max_lines |-> max_text_height \div line_height,
         truncate |-> s.truncate]

\* the text block put against the top edge of the card: text_y is
\* y + card_height_pt - text_height
TextOps_topaligned(lines, sheet, side, data_idx, x, y, s) ==
    LET f == SideSettings(s, side)
        line_height == (f.font_size * 12) \div 10
    IN  [lidx \in 1..Len(lines) |->
            Op("text", sheet, side, data_idx,
               2 * x + mm(s.card_width),
               2 * y + 2 * mm(s.card_height) - 2 * lidx * line_height,
               0, 0, lines[lidx])]

\* the drawCentredString calls of one card; x and y are given doubled
TextOps(lines, sheet, side, data_idx, x, y, s) ==
    LET f == SideSettings(s, side)
        line_height == (f.font_size * 12) \div 10
        text_height == Len(lines) * line_height
    IN  [lidx \in 1..Len(lines) |->
            Op("text", sheet, side, data_idx,
               2 * x + mm(s.card_width),
               2 * y + mm(s.card_height) + text_height - 2 * lidx * line_height,
               0, 0, lines[lidx])]

\* the exception of the back text raised with the message of the front text
DrawCell_samemessage(pos_on_page, data_idx, sheet, side, s, lay, rows) ==
    LET card_row == pos_on_page \div s.cards_per_row
        card_col == pos_on_page % s.cards_per_row
        x == lay.offset_left_pt + card_col * mm(s.card_width)
        y == mm(s.page_h) - lay.offset_top_pt - (card_row + 1) * mm(s.card_height)
        f == SideSettings(s, side)
    IN  IF data_idx = None THEN [ops |-> << >>, error |-> NoError]
        ELSE LET background == << Op("background", sheet, side, data_idx, x, y,
                                     mm(s.card_width), mm(s.card_height), << >>) >>
                 bar_top == IF f.bar_top
                            THEN << Op("bar_top", sheet, side, data_idx, x,
                                       y + mm(s.card_height) - mm(100),
                                       mm(s.card_width), mm(100), << >>) >>
                            ELSE << >>
                 bar_bottom == IF f.bar_bottom
                               THEN << Op("bar_bottom", sheet, side, data_idx, x, y,
                                          mm(s.card_width), mm(100), << >>) >>
                               ELSE << >>
                 w == wrap_text(CardWrapArgs(s, rows, data_idx, side))
                 drawn == background \o bar_top \o bar_bottom
             IN  IF w.raised
                 THEN [ops |-> drawn, error |-> Raise("IndexError", 0)]
                 ELSE IF w.overflowed /\ ~s.truncate
                      THEN [ops |-> drawn,
                            error |-> Raise("text_does_not_fit", data_idx + 1)]
                      ELSE [ops |-> drawn \o TextOps(w.lines, sheet, side, data_idx, x, y, s),
                            error |-> NoError]

\* the test 'if data_idx is not None' put behind the background
DrawCell_paddingdrawn(pos_on_page, data_idx, sheet, side, s, lay, rows) ==
    LET card_row == pos_on_page \div s.cards_per_row
        card_col == pos_on_page % s.cards_per_row
        x == lay.offset_left_pt + card_col * mm(s.card_width)
        y == mm(s.page_h) - lay.offset_top_pt - (card_row + 1) * mm(s.card_height)
        f == SideSettings(s, side)
    IN  IF data_idx = None
        THEN [ops |-> << Op("background", sheet, side, None, x, y,
                            mm(s.card_width), mm(s.card_height), << >>) >>,
              error |-> NoError]
        ELSE LET background == << Op("background", sheet, side, data_idx, x, y,
                                     mm(s.card_width), mm(s.card_height), << >>) >>
                 bar_top == IF f.bar_top
                            THEN << Op("bar_top", sheet, side, data_idx, x,
                                       y + mm(s.card_height) - mm(100),
                                       mm(s.card_width), mm(100), << >>) >>
                            ELSE << >>
                 bar_bottom == IF f.bar_bottom
                               THEN << Op("bar_bottom", sheet, side, data_idx, x, y,
                                          mm(s.card_width), mm(100), << >>) >>
                               ELSE << >>
                 w == wrap_text(CardWrapArgs(s, rows, data_idx, side))
                 drawn == background \o bar_top \o bar_bottom
             IN  IF w.raised
                 THEN [ops |-> drawn, error |-> Raise("IndexError", 0)]
                 ELSE IF w.overflowed /\ ~s.truncate
                      THEN [ops |-> drawn,
                            error |-> Raise(IF side = "front" THEN "text_does_not_fit"
                                            ELSE "back_text_does_not_fit", data_idx + 1)]
                      ELSE [ops |-> drawn \o TextOps(w.lines, sheet, side, data_idx, x, y, s),
                            error |-> NoError]

\* the color bars drawn before the background, which then covers them
DrawCell_barsfirst(pos_on_page, data_idx, sheet, side, s, lay, rows) ==
    LET card_row == pos_on_page \div s.cards_per_row
        card_col == pos_on_page % s.cards_per_row
        x == lay.offset_left_pt + card_col * mm(s.card_width)
        y == mm(s.page_h) - lay.offset_top_pt - (card_row + 1) * mm(s.card_height)
        f == SideSettings(s, side)
    IN  IF data_idx = None THEN [ops |-> << >>, error |-> NoError]
        ELSE LET background == << Op("background", sheet, side, data_idx, x, y,
                                     mm(s.card_width), mm(s.card_height), << >>) >>
                 bar_top == IF f.bar_top
                            THEN << Op("bar_top", sheet, side, data_idx, x,
                                       y + mm(s.card_height) - mm(100),
                                       mm(s.card_width), mm(100), << >>) >>
                            ELSE << >>
                 bar_bottom == IF f.bar_bottom
                               THEN << Op("bar_bottom", sheet, side, data_idx, x, y,
                                          mm(s.card_width), mm(100), << >>) >>
                               ELSE << >>
                 w == wrap_text(CardWrapArgs(s, rows, data_idx, side))
                 drawn == bar_top \o bar_bottom \o background
             IN  IF w.raised
                 THEN [ops |-> drawn, error |-> Raise("IndexError", 0)]
                 ELSE IF w.overflowed /\ ~s.truncate
                      THEN [ops |-> drawn,
                            error |-> Raise(IF side = "front" THEN "text_does_not_fit"
                                            ELSE "back_text_does_not_fit", data_idx + 1)]
                      ELSE [ops |-> drawn \o TextOps(w.lines, sheet, side, data_idx, x, y, s),
                            error |-> NoError]

\* the body of the cell loop for one cell: the operations it issues and the
\* exception it raises
DrawCell(pos_on_page, data_idx, sheet, side, s, lay, rows) ==
    LET card_row == pos_on_page \div s.cards_per_row
        card_col == pos_on_page % s.cards_per_row
        x == lay.offset_left_pt + card_col * mm(s.card_width)
        y == mm(s.page_h) - lay.offset_top_pt - (card_row + 1) * mm(s.card_height)
        f == SideSettings(s, side)
    IN  IF data_idx = None THEN [ops |-> << >>, error |-> NoError]
        ELSE LET background == << Op("background", sheet, side, data_idx, x, y,
                                     mm(s.card_width), mm(s.card_height), << >>) >>
                 bar_top == IF f.bar_top
                            THEN << Op("bar_top", sheet, side, data_idx, x,
                                       y + mm(s.card_height) - mm(100),
                                       mm(s.card_width), mm(100), << >>) >>
                            ELSE << >>
                 bar_bottom == IF f.bar_bottom
                               THEN << Op("bar_bottom", sheet, side, data_idx, x, y,
                                          mm(s.card_width), mm(100), << >>) >>
                               ELSE << >>
                 w == wrap_text(CardWrapArgs(s, rows, data_idx, side))
                 drawn == background \o bar_top \o bar_bottom
             IN  IF w.raised
                 THEN [ops |-> drawn, error |-> Raise("IndexError", 0)]
                 ELSE IF w.overflowed /\ ~s.truncate
                      THEN [ops |-> drawn,
                            error |-> Raise(IF side = "front" THEN "text_does_not_fit"
                                            ELSE "back_text_does_not_fit", data_idx + 1)]
                      ELSE [ops |-> drawn \o TextOps(w.lines, sheet, side, data_idx, x, y, s),
                            error |-> NoError]

\* the loop over the cells that leaves out the last cell of the page
RECURSIVE DrawCells_lastskipped(_, _, _, _, _, _, _)
DrawCells_lastskipped(cells, pos_on_page, sheet, side, s, lay, rows) ==
    IF pos_on_page >= Len(cells) - 1 THEN [ops |-> << >>, error |-> NoError]
    ELSE LET cell == DrawCell(pos_on_page, cells[pos_on_page + 1], sheet, side, s, lay, rows)
         IN  IF cell.error # NoError THEN cell
             ELSE LET rest == DrawCells_lastskipped(cells, pos_on_page + 1, sheet, side, s,
                                                    lay, rows)
                  IN  [ops |-> cell.ops \o rest.ops, error |-> rest.error]

\* for pos_on_page, data_idx in enumerate(cells), from position pos_on_page on
RECURSIVE DrawCells(_, _, _, _, _, _, _)
DrawCells(cells, pos_on_page, sheet, side, s, lay, rows) ==
    IF pos_on_page >= Len(cells) THEN [ops |-> << >>, error |-> NoError]
    ELSE LET cell == DrawCell(pos_on_page, cells[pos_on_page + 1], sheet, side, s, lay, rows)
         IN  IF cell.error # NoError THEN cell
             ELSE LET rest == DrawCells(cells, pos_on_page + 1, sheet, side, s, lay, rows)
                  IN  [ops |-> cell.ops \o rest.ops, error |-> rest.error]

\* draw_cut_lines: x, y are the first end of a line, w, h the second
draw_cut_lines(sheet, side, s, lay) ==
    [i \in 1..(s.cards_per_row + 1) |->
        LET x == lay.offset_left_pt + (i - 1) * mm(s.card_width)
        IN  Op("line", sheet, side, None, x, lay.offset_top_pt,
               x, mm(s.page_h) - lay.offset_top_pt, << >>)]
    \o
    [j \in 1..(lay.cards_per_col + 1) |->
        LET y == mm(s.page_h) - lay.offset_top_pt - (j - 1) * mm(s.card_height)
        IN  Op("line", sheet, side, None, lay.offset_left_pt, y,
               mm(s.page_w) - lay.offset_left_pt, y, << >>)]

\* the c.showPage() behind the back page forgotten
ShowPage_frontonly(sheet, side) ==
    IF side = "front" THEN << Op("showPage", sheet, side, None, 0, 0, 0, 0, << >>) >>
    ELSE << >>

\* c.showPage(): the page drawn so far is committed
ShowPage(sheet, side) == << Op("showPage", sheet, side, None, 0, 0, 0, 0, << >>) >>

\* canvas.Canvas(output_file, pagesize=page_size_pt): w, h are the page size
NewCanvas(s) == << Op("Canvas", 0, "none", None, 0, 0, mm(s.page_w), mm(s.page_h), << >>) >>

\* ------------------------------------------ start_process: qty validation
\* A cell of the qty column as the file gives it: a string that is no number
\* (the empty string among them), a number (value2 is twice its value, so that
\* 2.5 is 5), or NaN
TextCell(str)     == [kind |-> "text", value2 |-> 0, str |-> str]
NumberCell(value2) == [kind |-> "number", value2 |-> value2, str |-> ""]
NaNCell           == [kind |-> "nan", value2 |-> 0, str |-> ""]

\* data["qty"].fillna(1)
FillNa(cell) == IF cell.kind = "nan" THEN NumberCell(2) ELSE cell

\* pd.to_numeric(..., errors="coerce"): what is no number becomes NaN
ToNumeric(cell) == IF cell.kind = "number" THEN cell ELSE NaNCell

\* qty_values.astype(int), twice: the value rounded towards zero
AsInt2(cell) == 2 * IntDiv(cell.value2, 2)

Notice(idx, reason) == [row |-> idx + 2, reason |-> reason]

IsNaN(cell)         == cell.kind = "nan"
IsNonInteger(cell)  == cell.value2 # AsInt2(cell)
IsNonPositive(cell) == cell.value2 <= 0

\* the test that selects the rows of a notice
Selected(reason, cell) ==
    IF reason = "Non-numeric" THEN IsNaN(cell)
    ELSE IF reason = "Non-integer" THEN IsNonInteger(cell)
    ELSE IsNonPositive(cell)

\* the notices of the rows idx, idx+1, ... that the test of reason selects
RECURSIVE NoticesFrom(_, _, _)
NoticesFrom(cells, idx, reason) ==
    IF idx >= Len(cells) THEN << >>
    ELSE (IF Selected(reason, cells[idx + 1]) THEN << Notice(idx, reason) >> ELSE << >>)
         \o NoticesFrom(cells, idx + 1, reason)

\* the validation without the notices of the non-numeric rows
QtyValidation_silentcoerce(rows) ==
    LET filled     == [i \in DOMAIN rows |-> FillNa(rows[i].qty)]
        qty_values == [i \in DOMAIN rows |-> FillNa(ToNumeric(filled[i]))]
    IN  [invalid_rows |-> NoticesFrom(qty_values, 0, "Non-integer")
                          \o NoticesFrom(qty_values, 0, "Non-positive"),
         rows |-> [i \in DOMAIN rows |->
                    [rows[i] EXCEPT !.qty =
                        IF qty_values[i].value2 > 0 /\ ~IsNonInteger(qty_values[i])
                        THEN qty_values[i].value2 \div 2 ELSE 1]]]

\* lines 1157-1180: the notices collected and the qty column as it is left
QtyValidation(rows) ==
    LET filled     == [i \in DOMAIN rows |-> FillNa(rows[i].qty)]
        coerced    == [i \in DOMAIN rows |-> ToNumeric(filled[i])]
        qty_values == [i \in DOMAIN rows |-> FillNa(coerced[i])]
    IN  [invalid_rows |-> NoticesFrom(coerced, 0, "Non-numeric")
                          \o NoticesFrom(qty_values, 0, "Non-integer")
                          \o NoticesFrom(qty_values, 0, "Non-positive"),
         rows |-> [i \in DOMAIN rows |->
                    [rows[i] EXCEPT !.qty =
                        IF qty_values[i].value2 > 0 /\ ~IsNonInteger(qty_values[i])
                        THEN qty_values[i].value2 \div 2 ELSE 1]]]

\* -------------------------------------- start_process: the entries, the file
Digits == << "0", "1", "2", "3", "4", "5", "6", "7", "8", "9" >>

IsDigit(ch) == \E i \in DOMAIN Digits : Digits[i] = ch

DigitValue(ch) == (CHOOSE i \in DOMAIN Digits : Digits[i] = ch) - 1

\* the value of a run of digits, acc being the value of those read
RECURSIVE DigitsValue(_, _)
DigitsValue(body, acc) ==
    IF body = << >> THEN acc
    ELSE DigitsValue(Tail(body), 10 * acc + DigitValue(Head(body)))

\* what is left of an int() literal behind its sign
Unsigned(s) ==
    LET t == Strip(s)
    IN  IF t # << >> /\ Head(t) \in {"-", "+"} THEN Tail(t) ELSE t

\* int(s) returns: blanks around, an optional sign, one or more digits; any
\* other string of the characters of the entries raises ValueError
IsIntLiteral(s) ==
    Unsigned(s) # << >> /\ \A i \in DOMAIN Unsigned(s) : IsDigit(Unsigned(s)[i])

\* int(s) of a literal
IntOf(s) ==
    IF Head(Strip(s)) = "-" THEN 0 - DigitsValue(Unsigned(s), 0)
    ELSE DigitsValue(Unsigned(s), 0)

\* the validation without the test of the length
MultiplierValidation_nolength(entry) ==
    LET multiplier == Strip(entry)
    IN  IF multiplier # << >> /\ ~IsIntLiteral(multiplier)
        THEN [raised |-> "multiplier_not_an_integer", assigned |-> FALSE, value |-> 0]
        ELSE LET value == IF multiplier = << >> THEN 1 ELSE IntOf(multiplier)
             IN  [raised |-> IF value <= 0 THEN "multiplier_not_positive" ELSE "none",
                  assigned |-> TRUE, value |-> value]

\* lines 1031-1037: the ValueError raised, if any, and the value that
\* settings["quantity_multiplier"] is assigned before the last test
MultiplierValidation(entry) ==
    LET multiplier == Strip(entry)
    IN  IF multiplier # << >> /\ Len(multiplier) > 4
        THEN [raised |-> "multiplier_exceeds_4_digits", assigned |-> FALSE, value |-> 0]
        ELSE IF multiplier # << >> /\ ~IsIntLiteral(multiplier)
        THEN [raised |-> "multiplier_not_an_integer", assigned |-> FALSE, value |-> 0]
        ELSE LET value == IF multiplier = << >> THEN 1 ELSE IntOf(multiplier)
             IN  [raised |-> IF value <= 0 THEN "multiplier_not_positive" ELSE "none",
                  assigned |-> TRUE, value |-> value]

\* a path: what stands before the extension, and the extension as typed
Path(stem, ext) == [stem |-> stem, ext |-> ext]
NoPath == Path("", "")

\* file_path.lower(), of the extension
Lower(ext) == IF ext = ".CSV" THEN ".csv" ELSE ext

\* the endswith tests of lines 1077, 1087 and 1102
Supported(path) == Lower(path.ext) \in {".csv", ".xlsx", ".xls", ".ods"}

\* messagebox.showerror / showwarning: what is reported and the list it names
Box(box, what, list) == [box |-> box, what |-> what, list |-> list]

\* lines 1142-1147: the required columns that the data lack
Missing(s, cols) ==
    SelectSeq(<< s.front_column, s.back_column >>,
              LAMBDA col : col # "" /\ col \notin cols)
    \o (IF s.use_qty_column /\ "qty" \notin cols THEN << "qty" >> ELSE << >>)

\* ------------------------------------------ specification: reorder_for_back
CellValues == {None} \cup 0..MaxIdx

InitReorder ==
    /\ pc = "reorder_call"
    /\ \E per_row \in 1..MaxCols, per_col \in 1..MaxRows, mode \in {"long", "short"} :
          /\ settings = [cards_per_row |-> per_row, flip_mode |-> mode]
          /\ layout = [cards_per_col |-> per_col, cards_per_page |-> per_row * per_col]
          /\ page_indices \in [1..(per_row * per_col) -> CellValues]
    /\ back_order = << >>
    /\ data = << >>
    /\ card_indices = << >>
    /\ page = 0
    /\ sheets = << >>
    /\ canvas = << >>
    /\ wrap_args = NoWrapArgs
    /\ wrap_ret = NoWrapRet
    /\ invalid_rows = << >>
    /\ error = NoError
    /\ StartIdle

ReorderForBack ==
    /\ pc = "reorder_call"
    /\ back_order' = reorder_for_back(page_indices, settings.cards_per_row,
                                      layout.cards_per_col, settings.flip_mode)
    /\ pc' = "reorder_done"
    /\ UNCHANGED << settings, data, layout, card_indices, page_indices, page, sheets,
                    canvas, wrap_args, wrap_ret, invalid_rows, error, start_vars >>

\* reorder_for_back called on the list it returned, with the same arguments
ReorderAgain ==
    /\ pc = "reorder_done"
    /\ back_order' = reorder_for_back(back_order, settings.cards_per_row,
                                      layout.cards_per_col, settings.flip_mode)
    /\ pc' = "reorder_twice"
    /\ UNCHANGED << settings, data, layout, card_indices, page_indices, page, sheets,
                    canvas, wrap_args, wrap_ret, invalid_rows, error, start_vars >>

NextReorder == ReorderForBack \/ ReorderAgain

SpecReorder == InitReorder /\ [][NextReorder]_vars

\* the list index (from 1) of grid position (r, c), rows of per_row cells
Cell(r, c) == r * settings.cards_per_row + c + 1

\* C1: reorder_for_back puts the content of front cell (r, c) at back position
\* (r, C-1-c) when flip_mode is 'long' and at back position (R-1-r, c) when
\* flip_mode is 'short', for a page list of exactly R*C cells.
C1_Alignment ==
    pc = "reorder_done" =>
        \A r \in 0..(layout.cards_per_col - 1), c \in 0..(settings.cards_per_row - 1) :
            LET br == IF settings.flip_mode = "long" THEN r
                      ELSE layout.cards_per_col - 1 - r
                bc == IF settings.flip_mode = "long" THEN settings.cards_per_row - 1 - c
                      ELSE c
            IN  /\ Cell(br, bc) \in DOMAIN back_order
                /\ back_order[Cell(br, bc)] = page_indices[Cell(r, c)]

\* a short flip and a long flip of a grid of two rows and two or more columns
\* whose cells differ, so that a card has moved
C1_Witness ==
    /\ pc = "reorder_done"
    /\ layout.cards_per_col >= 2
    /\ settings.cards_per_row >= 2
    /\ back_order # page_indices
    /\ page_indices[1] # None
    /\ page_indices[1] # page_indices[Len(page_indices)]

\* how often v occurs in s
Count(s, v) == Cardinality({i \in DOMAIN s : s[i] = v})

\* the front position that back position p (from 1) lies on after the flip
Mirrored(p) ==
    LET r == (p - 1) \div settings.cards_per_row
        c == (p - 1) % settings.cards_per_row
    IN  IF settings.flip_mode = "long"
        THEN Cell(r, settings.cards_per_row - 1 - c)
        ELSE Cell(layout.cards_per_col - 1 - r, c)

\* C10: the list returned by reorder_for_back has exactly cards_per_page
\* cells and is a permutation of the front list; a back position is empty
\* exactly when the front position it mirrors is empty.
C10_BackIsPermutation ==
    pc = "reorder_done" =>
        /\ Len(back_order) = layout.cards_per_page
        /\ \A v \in CellValues : Count(back_order, v) = Count(page_indices, v)
        /\ \A p \in DOMAIN back_order :
              (back_order[p] = None) <=> (page_indices[Mirrored(p)] = None)

\* a partly filled page: cards first, empty cells behind, more rows than columns
C10_Witness ==
    /\ pc = "reorder_done"
    /\ layout.cards_per_col > settings.cards_per_row
    /\ page_indices[1] # None
    /\ page_indices[Len(page_indices)] = None
    /\ back_order # page_indices

\* C11: for each flip mode and every page list of exactly
\* cards_per_row*cards_per_col cells, applying reorder_for_back twice with the
\* same arguments returns the original list.
C11_FlipInvolution ==
    pc = "reorder_twice" => back_order = page_indices

\* a grid of two rows and two columns whose first application moved a card
C11_Witness ==
    /\ pc = "reorder_twice"
    /\ layout.cards_per_col >= 2
    /\ settings.cards_per_row >= 2
    /\ page_indices[1] # page_indices[Len(page_indices)]
    /\ reorder_for_back(page_indices, settings.cards_per_row, layout.cards_per_col,
                        settings.flip_mode) # page_indices
    /\ back_order = page_indices

\* ------------------------------------------------- specification: wrap_text
Chars == {"a", "i", " ", LF, CR}

Texts == UNION {[1..n -> Chars] : n \in 0..MaxLen}

InitWrap ==
    /\ pc = "wrap_call"
    /\ wrap_args \in [text : Texts, font_size : 1..MaxFontSize,
                      max_width_pt : 0..MaxWidth, max_lines : -1..MaxLines,
                      truncate : BOOLEAN]
    /\ wrap_ret = NoWrapRet
    /\ settings = NoSettings
    /\ layout = NoLayout
    /\ data = << >>
    /\ card_indices = << >>
    /\ page_indices = << >>
    /\ back_order = << >>
    /\ page = 0
    /\ sheets = << >>
    /\ canvas = << >>
    /\ invalid_rows = << >>
    /\ error = NoError
    /\ StartIdle

\* wrap_text returns
WrapText ==
    /\ pc = "wrap_call"
    /\ ~wrap_text(wrap_args).raised
    /\ wrap_ret' = wrap_text(wrap_args)
    /\ pc' = "wrap_done"
    /\ UNCHANGED << settings, data, layout, card_indices, page_indices, back_order,
                    page, sheets, canvas, wrap_args, invalid_rows, error, start_vars >>

\* wrap_text raises IndexError
WrapTextRaises ==
    /\ pc = "wrap_call"
    /\ wrap_text(wrap_args).raised
    /\ error' = Raise("IndexError", 0)
    /\ pc' = "wrap_raised"
    /\ UNCHANGED << settings, data, layout, card_indices, page_indices, back_order,
                    page, sheets, canvas, wrap_args, wrap_ret, invalid_rows, start_vars >>

NextWrap == WrapText \/ WrapTextRaises

SpecWrap == InitWrap /\ [][NextWrap]_vars

\* the greedy wrap of a list of words: words are added to the line while the
\* measured width stays within the width, else the line is flushed
RECURSIVE GreedyWords(_, _, _, _)
GreedyWords(words, cur, font_size, width) ==
    IF words = << >> THEN (IF cur = << >> THEN << >> ELSE << cur >>)
    ELSE LET joined == IF cur = << >> THEN Head(words) ELSE cur \o << " " >> \o Head(words)
         IN  IF stringWidth(joined, font_size) <= width
             THEN GreedyWords(Tail(words), joined, font_size, width)
             ELSE (IF cur = << >> THEN << >> ELSE << cur >>)
                  \o GreedyWords(Tail(words), Head(words), font_size, width)

\* the greedy wrap of explicit lines: a blank one gives one empty line
RECURSIVE GreedyLines(_, _, _)
GreedyLines(explicit, font_size, width) ==
    IF explicit = << >> THEN << >>
    ELSE (IF Strip(Head(explicit)) = << >> THEN << << >> >>
          ELSE GreedyWords(SplitWords(Head(explicit), << >>), << >>, font_size, width))
         \o GreedyLines(Tail(explicit), font_size, width)

\* the lines the whole text of the call needs, without a limit
FullWrap ==
    GreedyLines(SplitLF(ReplaceCRLF(wrap_args.text), << >>),
                wrap_args.font_size, wrap_args.max_width_pt)

\* C3: with truncate=false wrap_text returns overflowed=true only when the
\* greedy wrap of the whole text needs more than max_lines lines; a text that
\* needs max_lines lines or fewer is returned complete with overflowed=false.
C3_OverflowOnlyWhenTooLong ==
    (pc = "wrap_done" /\ ~wrap_args.truncate) =>
        /\ wrap_ret.overflowed => Len(FullWrap) > wrap_args.max_lines
        /\ Len(FullWrap) <= wrap_args.max_lines =>
              (wrap_ret.lines = FullWrap /\ ~wrap_ret.overflowed)

\* C4 as stated, for every max_lines: the returned list has at most max_lines
\* elements.
C4_LineCountBoundAnyMaxLines ==
    pc = "wrap_done" => Len(wrap_ret.lines) <= wrap_args.max_lines

\* C4, amended: for every text, width and max_lines >= 0, with truncate on or
\* off, the list wrap_text returns has at most max_lines elements.
C4_LineCountBound ==
    (pc = "wrap_done" /\ wrap_args.max_lines >= 0) =>
        Len(wrap_ret.lines) <= wrap_args.max_lines

\* three blank explicit lines cut to one line, truncate on
C4_Witness ==
    /\ pc = "wrap_done"
    /\ wrap_args.truncate
    /\ wrap_args.text = << LF, LF >>
    /\ wrap_args.max_lines = 1
    /\ Len(FullWrap) = 3
    /\ Len(wrap_ret.lines) = 1

\* C15: when the text needs more than max_lines lines and truncate=true,
\* wrap_text returns exactly max_lines lines, the first max_lines-1 equal to
\* those of the untruncated wrap, the last one equal to the first
\* floor(max_width_pt/font_size) characters of the wrap's max_lines-th line
\* followed by '...', and overflowed=false.
C15_TruncatedLines ==
    (pc = "wrap_done" /\ wrap_args.truncate /\ Len(FullWrap) > wrap_args.max_lines) =>
        /\ Len(wrap_ret.lines) = wrap_args.max_lines
        /\ \A i \in 1..(wrap_args.max_lines - 1) :
              i \in DOMAIN wrap_ret.lines /\ wrap_ret.lines[i] = FullWrap[i]
        /\ wrap_args.max_lines >= 1 =>
              /\ wrap_args.max_lines \in DOMAIN wrap_ret.lines
              /\ wrap_ret.lines[wrap_args.max_lines]
                    = SliceTo(FullWrap[wrap_args.max_lines],
                              wrap_args.max_width_pt \div wrap_args.font_size) \o Ellipsis
        /\ ~wrap_ret.overflowed

\* "\n".join(lines)
RECURSIVE JoinLF(_)
JoinLF(lines) ==
    IF lines = << >> THEN << >>
    ELSE IF Len(lines) = 1 THEN lines[1]
         ELSE lines[1] \o << LF >> \o JoinLF(Tail(lines))

\* wrap_text called again on the joined lines, with the same constraints
WrapAgain == wrap_text([wrap_args EXCEPT !.text = JoinLF(wrap_ret.lines)])

\* C16: wrapping is idempotent: for every text and every (size, max_width_pt,
\* max_lines, truncate), joining the lines returned by wrap_text with newlines
\* and calling wrap_text again with the same constraints returns the same
\* list of lines.
C16_WrapIdempotent ==
    pc = "wrap_done" => (~WrapAgain.raised /\ WrapAgain.lines = wrap_ret.lines)

\* the text with every CRLF and every lone CR replaced by LF
RECURSIVE BreaksAsLF(_)
BreaksAsLF(t) ==
    IF t = << >> THEN << >>
    ELSE IF Head(t) = CR
         THEN << LF >> \o BreaksAsLF(IF Len(t) >= 2 /\ t[2] = LF
                                     THEN SubSeq(t, 3, Len(t)) ELSE Tail(t))
         ELSE << Head(t) >> \o BreaksAsLF(Tail(t))

\* C17: wrap_text treats CRLF, a lone CR and LF alike as one explicit line
\* break: the lines returned for a text are those returned for the same text
\* with every break written as LF, so that each break starts a new output line
\* and the words on either side of it never share a line.
C17_BreaksAlike ==
    pc = "wrap_done" =>
        LET lf == wrap_text([wrap_args EXCEPT !.text = BreaksAsLF(wrap_args.text)])
        IN  ~lf.raised /\ wrap_ret.lines = lf.lines /\ wrap_ret.overflowed = lf.overflowed

\* ------------------------------------- specification: generate_flashcard_pdf
\* the settings of DEFAULT_SETTINGS that generate_flashcard_pdf reads
DefaultSettings ==
    [page_w |-> 4200, page_h |-> 5940,
     margin_top |-> 200, margin_bottom |-> 200, margin_left |-> 200, margin_right |-> 200,
     cards_per_row |-> 3, card_width |-> 1712, card_height |-> 1100,
     flip_mode |-> "long", truncate |-> FALSE,
     use_qty_column |-> TRUE, quantity_multiplier |-> 1,
     front_font_size |-> Pt(12), back_font_size |-> Pt(12),
     front_color_bar_top |-> FALSE, front_color_bar_bottom |-> FALSE,
     back_color_bar_top |-> FALSE, back_color_bar_bottom |-> FALSE]

\* a page of 60 x 50 mm with margins of 5 mm: two rows of two cards of
\* 25 x 20 mm, each holding two lines of text
SmallSettings ==
    [DefaultSettings EXCEPT !.page_w = 1200, !.page_h = 1000,
        !.margin_top = 100, !.margin_bottom = 100,
        !.margin_left = 100, !.margin_right = 100,
        !.cards_per_row = 2, !.card_width = 500, !.card_height = 400]

Row(qty, front, back) == [qty |-> qty, front |-> front, back |-> back]

\* the rows of Scenario B
TwoRows == << Row(2, << "a" >>, << "i" >>), Row(3, << "i" >>, << "a" >>) >>

RowLists(rows, n) == UNION {[1..k -> rows] : k \in 0..n}

\* the geometry varies: page, margins (in steps of 5 mm), card height and
\* cards_per_row, which may be zero or negative
InitGeometryInputs ==
    /\ data = TwoRows
    /\ \/ settings = DefaultSettings
       \/ \E pw \in {1100, 1300}, ph \in {900, 1000}, ch \in {400, 1100},
             per_row \in (-1)..MaxPerRow, mode \in {"long", "short"},
             mt \in 0..MaxMargin, mb \in 0..MaxMargin,
             ml \in 0..MaxMargin, mr \in 0..MaxMargin :
             settings = [SmallSettings EXCEPT !.page_w = pw, !.page_h = ph,
                            !.card_height = ch, !.cards_per_row = per_row,
                            !.flip_mode = mode,
                            !.margin_top = mt * 100, !.margin_bottom = mb * 100,
                            !.margin_left = ml * 100, !.margin_right = mr * 100]

\* the grids of one or two rows of one or two cards
GridSettings ==
    {[SmallSettings EXCEPT !.cards_per_row = per_row, !.page_h = ph, !.flip_mode = mode] :
        per_row \in 1..2, ph \in {600, 1000}, mode \in {"long", "short"}}

\* the quantities vary: rows, qty values as start_process leaves them,
\* multiplier and use_qty_column
InitQuantityInputs ==
    /\ data \in RowLists({Row(q, << "a" >>, << "i" >>) : q \in 1..MaxQty}, MaxRecords)
    /\ \E g \in GridSettings, m \in 1..MaxMult, use \in BOOLEAN :
          settings = [g EXCEPT !.quantity_multiplier = m, !.use_qty_column = use]

\* texts of one, two and three lines
TextChoices == { << "a" >>, << "a", LF, "i" >>, << "i", LF, LF, "a" >> }

\* the texts vary, with truncate and the color bars
InitTextInputs ==
    /\ data \in RowLists({Row(1, f, b) : f \in TextChoices, b \in TextChoices}, MaxTextRows)
    /\ \E mode \in {"long", "short"}, tr \in BOOLEAN, ft \in BOOLEAN, fb \in BOOLEAN,
          bt \in BOOLEAN, bb \in BOOLEAN :
          settings = [SmallSettings EXCEPT !.flip_mode = mode, !.truncate = tr,
                         !.front_color_bar_top = ft, !.front_color_bar_bottom = fb,
                         !.back_color_bar_top = bt, !.back_color_bar_bottom = bb]

\* a text that fits a card of SmallSettings and one of three lines
OverflowTexts == { << "a" >>, << "i", LF, LF, "a" >> }

\* one card on a page, so that every card has a sheet of its own; the texts
\* and truncate vary
InitOverflowInputs ==
    /\ data \in RowLists({Row(1, f, b) : f \in OverflowTexts, b \in OverflowTexts},
                         MaxTextRows)
    /\ \E mode \in {"long", "short"}, tr \in BOOLEAN :
          settings = [SmallSettings EXCEPT !.cards_per_row = 1, !.page_h = 600,
                         !.flip_mode = mode, !.truncate = tr]

\* a page height of 44.4 mm that is a whole number of card heights, 14.8 mm
\* or 22.2 mm, none of the three being a double; no margin at top and bottom
InitExactFitInputs ==
    /\ data = TwoRows
    /\ \E ch \in {296, 444}, per_row \in 1..2, mode \in {"long", "short"} :
          settings = [SmallSettings EXCEPT !.page_h = 888, !.card_height = ch,
                         !.margin_top = 0, !.margin_bottom = 0,
                         !.cards_per_row = per_row, !.flip_mode = mode]

\* texts of one and of two lines
BarTexts == { << "a" >>, << "a", LF, "i" >> }

\* a row of two cards of 25 x 30 mm, which have room for two lines of text
\* between two color bars; the bars, the texts and truncate vary
InitBarInputs ==
    /\ data \in {<< Row(2, f, b) >> : f \in BarTexts, b \in BarTexts}
    /\ \E tr \in BOOLEAN, ft \in BOOLEAN, fb \in BOOLEAN, bt \in BOOLEAN, bb \in BOOLEAN :
          settings = [SmallSettings EXCEPT !.card_height = 600, !.truncate = tr,
                         !.front_color_bar_top = ft, !.front_color_bar_bottom = fb,
                         !.back_color_bar_top = bt, !.back_color_bar_bottom = bb]

\* what generate_flashcard_pdf starts from
GenerateCalled ==
    /\ pc = "generate_call"
    /\ layout = NoLayout
    /\ card_indices = << >>
    /\ page_indices = << >>
    /\ back_order = << >>
    /\ page = 0
    /\ sheets = << >>
    /\ canvas = << >>
    /\ wrap_args = NoWrapArgs
    /\ wrap_ret = NoWrapRet
    /\ invalid_rows = << >>
    /\ error = NoError
    /\ StartIdle

InitGen ==
    /\ GenerateCalled
    /\ (InitGeometryInputs \/ InitQuantityInputs \/ InitTextInputs \/ InitOverflowInputs
           \/ InitExactFitInputs \/ InitBarInputs)

\* lines 1259-1277: the geometry and its two checks
ComputeGeometry ==
    /\ pc = "generate_call"
    /\ layout' = Geometry(settings)
    /\ IF Geometry(settings).raised # "none"
       THEN /\ error' = Raise(Geometry(settings).raised, 0)
            /\ pc' = "raised"
       ELSE /\ error' = error
            /\ pc' = "expand"
    /\ UNCHANGED << settings, data, card_indices, page_indices, back_order, page,
                    sheets, canvas, wrap_args, wrap_ret, invalid_rows, start_vars >>

\* lines 1279-1292: the canvas is created and the quantities are expanded
ExpandQuantities ==
    /\ pc = "expand"
    /\ card_indices' = ExpandFrom(data, 0, settings)
    /\ canvas' = NewCanvas(settings)
    /\ page' = 0
    /\ pc' = IF NumPages(Len(card_indices'), layout.cards_per_page) > 0
             THEN "front" ELSE "save"
    /\ UNCHANGED << settings, data, layout, page_indices, back_order, sheets,
                    wrap_args, wrap_ret, invalid_rows, error, start_vars >>

\* lines 1299-1377: the front page of sheet page
FrontPage ==
    /\ pc = "front"
    /\ LET cells == PageIndices(card_indices, page, layout.cards_per_page)
           d == DrawCells(cells, 0, page, "front", settings, layout, data)
       IN  /\ page_indices' = cells
           /\ sheets' = Append(sheets, [front |-> cells, back |-> << >>])
           /\ IF d.error # NoError
              THEN /\ canvas' = canvas \o d.ops
                   /\ error' = d.error
                   /\ pc' = "raised"
              ELSE /\ canvas' = canvas \o d.ops
                                \o draw_cut_lines(page, "front", settings, layout)
                                \o ShowPage(page, "front")
                   /\ error' = error
                   /\ pc' = "back"
    /\ UNCHANGED << settings, data, layout, card_indices, back_order, page,
                    wrap_args, wrap_ret, invalid_rows, start_vars >>

\* lines 1380-1454: the back page of sheet page, and the step of the loop
BackPage ==
    /\ pc = "back"
    /\ LET cells == reorder_for_back(page_indices, settings.cards_per_row,
                                     layout.cards_per_col, settings.flip_mode)
           d == DrawCells(cells, 0, page, "back", settings, layout, data)
       IN  /\ back_order' = cells
           /\ sheets' = [sheets EXCEPT ![Len(sheets)].back = cells]
           /\ IF d.error # NoError
              THEN /\ canvas' = canvas \o d.ops
                   /\ error' = d.error
                   /\ pc' = "raised"
                   /\ page' = page
              ELSE /\ canvas' = canvas \o d.ops
                                \o draw_cut_lines(page, "back", settings, layout)
                                \o ShowPage(page, "back")
                   /\ error' = error
                   /\ page' = page + 1
                   /\ pc' = IF page + 1 < NumPages(Len(card_indices), layout.cards_per_page)
                            THEN "front" ELSE "save"
    /\ UNCHANGED << settings, data, layout, card_indices, page_indices,
                    wrap_args, wrap_ret, invalid_rows, start_vars >>

\* c.save() moved into a finally clause: it runs behind an exception too
Save_always ==
    /\ pc \in {"save", "raised"}
    /\ canvas' = Append(canvas, Op("save", page, "none", None, 0, 0, 0, 0, << >>))
    /\ pc' = "done"
    /\ UNCHANGED << settings, data, layout, card_indices, page_indices, back_order,
                    page, sheets, wrap_args, wrap_ret, invalid_rows, error, start_vars >>

\* line 1456: c.save()
Save ==
    /\ pc = "save"
    /\ canvas' = Append(canvas, Op("save", page, "none", None, 0, 0, 0, 0, << >>))
    /\ pc' = "done"
    /\ UNCHANGED << settings, data, layout, card_indices, page_indices, back_order,
                    page, sheets, wrap_args, wrap_ret, invalid_rows, error, start_vars >>

NextGen == ComputeGeometry \/ ExpandQuantities \/ FrontPage \/ BackPage \/ Save

SpecGen == InitGen /\ [][NextGen]_vars

\* generate_flashcard_pdf called on rows that start_process has not validated
InitGenDirect ==
    /\ GenerateCalled
    /\ data \in RowLists({Row(q, << "a" >>, << "i" >>) : q \in (-1)..MaxQty}, MaxRecords)
    /\ \E g \in GridSettings, m \in 1..MaxMult :
          settings = [g EXCEPT !.quantity_multiplier = m]

SpecGenDirect == InitGenDirect /\ [][NextGen]_vars

\* the background rectangles drawn on one side of one sheet
CardRects(sheet, side) ==
    {canvas[i] : i \in {j \in DOMAIN canvas :
        /\ canvas[j].op = "background"
        /\ canvas[j].sheet = sheet
        /\ canvas[j].side = side}}

\* the sheets whose back page has been committed
BackCommitted ==
    {canvas[i].sheet : i \in {j \in DOMAIN canvas :
        canvas[j].op = "showPage" /\ canvas[j].side = "back"}}

\* where a rectangle of the front lies, seen from the back, once the sheet is
\* flipped: mirrored about the vertical centre line of the page for 'long',
\* about the horizontal centre line for 'short'
Flipped(rect) ==
    IF settings.flip_mode = "long"
    THEN [rect EXCEPT !.x = mm(settings.page_w) - rect.x - rect.w]
    ELSE [rect EXCEPT !.y = mm(settings.page_h) - rect.y - rect.h]

SameRect(a, b) == a.x = b.x /\ a.y = b.y /\ a.w = b.w /\ a.h = b.h

\* C2: for every valid configuration, unequal margins included, the rectangle
\* in which the back of a card is drawn coincides with the rectangle of its
\* front once the sheet is flipped per flip_mode.
C2_BackCoincidesWithFront ==
    \A sheet \in BackCommitted :
        /\ \A f \in CardRects(sheet, "front") :
              \E b \in CardRects(sheet, "back") : b.idx = f.idx /\ SameRect(b, Flipped(f))
        /\ \A b \in CardRects(sheet, "back") :
              \E f \in CardRects(sheet, "front") : b.idx = f.idx /\ SameRect(b, Flipped(f))

\* the geometry block has been left
GeometryDone == pc \notin {"generate_call"}

\* C5 as stated: with the default settings the geometry computation succeeds
\* and yields cardsPerCol=4, cardsPerPage=12 and offsets greater than the margins.
C5_DefaultsFit ==
    (settings = DefaultSettings /\ GeometryDone) =>
        /\ error = NoError
        /\ layout.cards_per_col = 4
        /\ layout.cards_per_page = 12
        /\ layout.offset_left > settings.margin_left
        /\ layout.offset_top > settings.margin_top

\* C5, amended: with page 210x297 mm, margins 10/10/10/10 mm, card 85.6x55 mm
\* and cardsPerRow=3 the geometry computation yields cardsPerCol=5 and
\* cardsPerPage=15 and fails: the grid of 3 x 85.6 mm with the left and right
\* margins is wider than the page, and the ValueError of the grid check is raised.
C5_DefaultsRejected ==
    (settings = DefaultSettings /\ GeometryDone) =>
        /\ layout.cards_per_col = 5
        /\ layout.cards_per_page = 15
        /\ layout.grid_width + settings.margin_left + settings.margin_right > settings.page_w
        /\ error = Raise("grid_too_large", 0)
        /\ pc = "raised"

C5_Witness ==
    /\ settings = DefaultSettings
    /\ pc = "raised"
    /\ layout.cards_per_page = 15

\* the quantity expansion has run
Expanded == pc \in {"front", "back", "save", "done"} \/ (pc = "raised" /\ sheets # << >>)

\* the effective quantity of record idx (from 0)
EffectiveQty(idx) ==
    (IF settings.use_qty_column THEN data[idx + 1].qty ELSE 1) * settings.quantity_multiplier

RECURSIVE SumQty(_)
SumQty(n) == IF n = 0 THEN 0 ELSE EffectiveQty(n - 1) + SumQty(n - 1)

\* C6: in the expanded sequence record index i appears exactly
\* (qty_i if use_qty_column else 1) * quantity_multiplier times, its occurrences
\* are contiguous and the indices are in non-decreasing order; the length is
\* the sum of the effective quantities; quantities [2,3] with multiplier 1
\* give [0,0,1,1,1].
C6_QuantityExpansion ==
    Expanded =>
        /\ \A idx \in 0..(Len(data) - 1) : Count(card_indices, idx) = EffectiveQty(idx)
        /\ \A j, k \in DOMAIN card_indices : j < k => card_indices[j] <= card_indices[k]
        /\ Len(card_indices) = SumQty(Len(data))
        /\ (data = TwoRows /\ settings.use_qty_column /\ settings.quantity_multiplier = 1)
              => card_indices = << 0, 0, 1, 1, 1 >>

\* two rows with different quantities, doubled by the multiplier
C6_Witness ==
    /\ pc = "done"
    /\ Len(data) = 2
    /\ settings.use_qty_column
    /\ settings.quantity_multiplier = 2
    /\ data[1].qty = 1
    /\ data[2].qty = 2
    /\ card_indices = << 0, 0, 1, 1, 1, 1 >>

\* C8: a record whose qty is <= 0, handed to generate_flashcard_pdf with
\* use_qty_column enabled, is expanded with quantity 1 * quantity_multiplier,
\* never with zero cards.
C8_CoreDefaultsQty ==
    (Expanded /\ settings.use_qty_column) =>
        \A idx \in 0..(Len(data) - 1) :
            data[idx + 1].qty <= 0 =>
                Count(card_indices, idx) = 1 * settings.quantity_multiplier

\* the least k with k * p >= n
CeilDiv(n, p) == CHOOSE k \in 0..n : k * p >= n /\ (k = 0 \/ (k - 1) * p < n)

\* C9: a completed run lays out exactly ceil(N/P) sheets; the front list of
\* every sheet has exactly P cells, filled row-major from the card sequence in
\* order; the empty cells are the trailing P*ceil(N/P) - N cells of the last
\* sheet, and the back list of a sheet has as many empty cells as its front
\* list (P+1 cards give 2 sheets, the second with P-1 empty cells).
C9_Pagination ==
    pc = "done" =>
        LET N == Len(card_indices)
            P == layout.cards_per_page
        IN  /\ Len(sheets) = CeilDiv(N, P)
            /\ \A k \in DOMAIN sheets :
                  /\ Len(sheets[k].front) = P
                  /\ \A q \in 1..P :
                        LET n == (k - 1) * P + q
                            r == (q - 1) \div settings.cards_per_row
                            c == (q - 1) % settings.cards_per_row
                        IN  /\ sheets[k].front[q] = IF n <= N THEN card_indices[n] ELSE None
                            /\ n <= N =>
                                 \E b \in CardRects(k - 1, "front") :
                                    /\ b.idx = card_indices[n]
                                    /\ b.x = layout.offset_left_pt + c * mm(settings.card_width)
                                    /\ b.y = mm(settings.page_h) - layout.offset_top_pt
                                             - (r + 1) * mm(settings.card_height)
                  /\ Count(sheets[k].back, None) = Count(sheets[k].front, None)
                  /\ Cardinality({q \in 1..P : sheets[k].front[q] = None})
                        = IF k = Len(sheets) THEN P * CeilDiv(N, P) - N ELSE 0

\* one card more than a page of four holds: two sheets, three empty cells
C9_Witness ==
    /\ pc = "done"
    /\ layout.cards_per_page = 4
    /\ Len(card_indices) = 5
    /\ Len(sheets) = 2
    /\ Count(sheets[2].front, None) = 3
    /\ Count(sheets[2].back, None) = 3

\* the pages committed so far, in the order of their showPage calls
ShowPages == SelectSeq(canvas, LAMBDA o : o.op = "showPage")

\* the positions of the canvas at which the document is finalized
Saves == {i \in DOMAIN canvas : canvas[i].op = "save"}

\* C12: the committed pages alternate strictly front, back, front, back: the
\* front of sheet k, then its back, then the front of sheet k+1; a completed
\* run has committed exactly 2*ceil(N/cards_per_page) pages, and the document
\* is finalized only after the last of them.
C12_PagesAlternate ==
    /\ \A i \in DOMAIN ShowPages :
          /\ ShowPages[i].sheet = (i - 1) \div 2
          /\ ShowPages[i].side = IF i % 2 = 1 THEN "front" ELSE "back"
    /\ pc = "done" =>
          /\ Len(ShowPages) = 2 * CeilDiv(Len(card_indices), layout.cards_per_page)
          /\ Saves = {Len(canvas)}
    /\ pc # "done" => Saves = {}

\* a completed run of two sheets: four pages, then the save
C12_Witness ==
    /\ pc = "done"
    /\ Len(ShowPages) = 4
    /\ ShowPages[3].sheet = 1
    /\ ShowPages[3].side = "front"
    /\ ShowPages[4].side = "back"
    /\ canvas[Len(canvas)].op = "save"

\* C14: the geometry check raises, before the canvas is created and before
\* any drawing operation, whenever the card height exceeds the page height
\* minus the top and bottom margins, whenever cards_per_row <= 0, and whenever
\* cards_per_row*card_width + margin_left + margin_right > page_width.
C14_GeometryRaisesFirst ==
    (/\ GeometryDone
     /\ \/ settings.card_height
              > settings.page_h - settings.margin_top - settings.margin_bottom
        \/ settings.cards_per_row <= 0
        \/ settings.cards_per_row * settings.card_width
              + settings.margin_left + settings.margin_right > settings.page_w)
    => /\ pc = "raised"
       /\ error.kind \in {"grid_too_large", "card_too_large"}
       /\ canvas = << >>

\* no card in a row: the grid check passes and the second check raises
C14_Witness ==
    /\ pc = "raised"
    /\ settings.cards_per_row = 0
    /\ settings.card_height
          <= settings.page_h - settings.margin_top - settings.margin_bottom
    /\ error = Raise("card_too_large", 0)
    /\ canvas = << >>

\* a geometry check has failed, or a text overflowed with truncate disabled
GenerationFailed ==
    error.kind \in {"grid_too_large", "card_too_large",
                    "text_does_not_fit", "back_text_does_not_fit"}

\* C13: generation is all-or-nothing: once a geometry check has failed or a
\* card's text has overflowed with truncate disabled, the run has stopped, no
\* step of it can follow, and the document has not been finalized, whichever
\* sheet and side the failure occurs on and however many pages were committed.
C13_AllOrNothing ==
    GenerationFailed =>
        /\ pc = "raised"
        /\ Saves = {}
        /\ ~ENABLED NextGen

\* the back text of the second sheet overflows behind three committed pages
C13_Witness ==
    /\ pc = "raised"
    /\ error = Raise("back_text_does_not_fit", 2)
    /\ page = 1
    /\ Len(ShowPages) = 3
    /\ Saves = {}

\* the cards among the cells of one page, in the order of the cells
CardsOf(cells, sheet, side) ==
    SelectSeq([i \in DOMAIN cells |-> [sheet |-> sheet, side |-> side, idx |-> cells[i]]],
              LAMBDA card : card.idx # None)

\* the draw order from sheet k on: sheet by sheet, the front cells in grid
\* order, then the back cells in back order
RECURSIVE DrawOrderFrom(_)
DrawOrderFrom(k) ==
    IF k >= NumPages(Len(card_indices), layout.cards_per_page) THEN << >>
    ELSE LET front == PageIndices(card_indices, k, layout.cards_per_page)
             back == reorder_for_back(front, settings.cards_per_row,
                                      layout.cards_per_col, settings.flip_mode)
         IN  CardsOf(front, k, "front") \o CardsOf(back, k, "back") \o DrawOrderFrom(k + 1)

\* wrap_text reports the text of this side of the card as overflowed
Overflows(card) == wrap_text(CardWrapArgs(settings, data, card.idx, card.side)).overflowed

\* the cards whose background has been drawn, in the order of the drawing
Drawn ==
    LET rects == SelectSeq(canvas, LAMBDA o : o.op = "background")
    IN  [i \in DOMAIN rects |->
            [sheet |-> rects[i].sheet, side |-> rects[i].side, idx |-> rects[i].idx]]

\* the cards whose text has been drawn
TextDrawn ==
    {[sheet |-> canvas[i].sheet, side |-> canvas[i].side, idx |-> canvas[i].idx] :
        i \in {j \in DOMAIN canvas : canvas[j].op = "text"}}

\* C20: with truncate disabled, generation aborts at the first card, in draw
\* order, whose side text wrap_text reports as overflowed; the raised error
\* identifies that card's record and whether the front or the back text
\* failed, and no later card is drawn.
C20_AbortsAtFirstOverflow ==
    (/\ ~settings.truncate
     /\ pc \in {"raised", "done"}
     /\ error.kind \notin {"grid_too_large", "card_too_large"})
    => LET order == DrawOrderFrom(0)
           over == {i \in DOMAIN order : Overflows(order[i])}
       IN  IF over = {}
           THEN pc = "done" /\ Drawn = order
           ELSE LET first == CHOOSE i \in over : \A j \in over : i <= j
                IN  /\ pc = "raised"
                    /\ error = Raise(IF order[first].side = "front"
                                     THEN "text_does_not_fit"
                                     ELSE "back_text_does_not_fit",
                                     order[first].idx + 1)
                    /\ Drawn = SubSeq(order, 1, first)
                    /\ TextDrawn = {order[i] : i \in 1..(first - 1)}
                    /\ Saves = {}

\* both texts of the second record overflow: the run stops at its front, on
\* the second sheet, behind the two pages of the first
C20_Witness ==
    /\ pc = "raised"
    /\ ~settings.truncate
    /\ Len(data) = 2
    /\ Overflows([sheet |-> 1, side |-> "front", idx |-> 1])
    /\ Overflows([sheet |-> 1, side |-> "back", idx |-> 1])
    /\ error = Raise("text_does_not_fit", 2)
    /\ Len(ShowPages) = 2
    /\ Len(Drawn) = 3

\* ------------------------------------------- specification: start_process
\* the cells a qty column holds once the file is read: strings, among them the
\* empty one, and numbers, among them negative ones and halves
QtyCells ==
    {TextCell(""), TextCell("abc")} \cup {NumberCell(v) : v \in (-2)..(2 * MaxQty)}

\* a row as read: qty_cell keeps the cell of the file, qty is the column that
\* the validation rewrites
RowRead(cell) == [qty_cell |-> cell, qty |-> cell, front |-> << "a" >>, back |-> << "i" >>]

\* the settings before Start is pressed: the defaults, the column names empty
StartSettings ==
    DefaultSettings @@ [file_path |-> NoPath, front_column |-> "", back_column |-> ""]

\* the input file: whether it can be read, its header and its rows; a field of
\* a row whose column the header lacks is never read
File(readable, cols, rows) == [readable |-> readable, columns |-> cols, rows |-> rows]

AllColumns == {"Front", "Back", "qty"}

GoodFile == File(TRUE, AllColumns, << RowRead(NumberCell(2)) >>)

Gui(multiplier, numeric_ok, front, back, use, path) ==
    [quantity_multiplier |-> multiplier, numeric_fields_ok |-> numeric_ok,
     front_column |-> front, back_column |-> back, use_qty_column |-> use,
     file_path |-> path]

\* the characters typed into the multiplier entry
EntryChars == {"0", "2", "-", ".", " "}

EntryTexts == UNION {[1..n -> EntryChars] : n \in 0..MaxEntryLen}

\* the multiplier entry varies
InitMultiplierEntries ==
    /\ gui \in {Gui(m, TRUE, "Front", "Back", TRUE, Path("cards", ".csv")) : m \in EntryTexts}
    /\ disk = [input |-> GoodFile, settings_written |-> FALSE, settings_json |-> NoSettings]

\* the column names, the check box of the qty column, the path and the header
\* of the file vary
InitColumnEntries ==
    /\ gui \in {Gui(<< "2" >>, ok, front, back, use, path) :
                  ok \in BOOLEAN, front \in {"", "Front", "Side"},
                  back \in {"", "Back", "Side"}, use \in BOOLEAN,
                  path \in {NoPath, Path("cards", ".csv"), Path("cards", ".CSV"),
                            Path("cards", ".txt")}}
    /\ \E readable \in BOOLEAN, cols \in SUBSET AllColumns :
          disk = [input |-> File(readable, cols, << RowRead(NumberCell(2)) >>),
                  settings_written |-> FALSE, settings_json |-> NoSettings]

\* the cells of the qty column vary
InitQtyEntries ==
    /\ gui \in {Gui(<< >>, TRUE, "Front", "Back", use, Path("cards", ".csv")) :
                  use \in BOOLEAN}
    /\ \E rows \in RowLists({RowRead(cell) : cell \in QtyCells}, MaxRecords) :
          disk = [input |-> File(TRUE, AllColumns, rows),
                  settings_written |-> FALSE, settings_json |-> NoSettings]

\* Start is pressed
InitStart ==
    /\ pc = "start_process"
    /\ settings = StartSettings
    /\ (InitMultiplierEntries \/ InitColumnEntries \/ InitQtyEntries)
    /\ data = << >>
    /\ columns = {}
    /\ messagebox = << >>
    /\ layout = NoLayout
    /\ card_indices = << >>
    /\ page_indices = << >>
    /\ back_order = << >>
    /\ page = 0
    /\ sheets = << >>
    /\ canvas = << >>
    /\ wrap_args = NoWrapArgs
    /\ wrap_ret = NoWrapRet
    /\ invalid_rows = << >>
    /\ error = NoError

\* lines 1017-1058: the entries are copied into settings; a numeric field that
\* does not parse, or a multiplier that fails its validation, is reported and
\* start_process returns
ReadEntries ==
    /\ pc = "start_process"
    /\ LET copied == [settings EXCEPT !.file_path = gui.file_path,
                                      !.front_column = gui.front_column,
                                      !.back_column = gui.back_column,
                                      !.use_qty_column = gui.use_qty_column]
           v == MultiplierValidation(gui.quantity_multiplier)
       IN  IF ~gui.numeric_fields_ok
           THEN /\ settings' = copied
                /\ messagebox' = Append(messagebox, Box("showerror", "invalid_number", << >>))
                /\ pc' = "returned"
           ELSE /\ settings' = IF v.assigned
                               THEN [copied EXCEPT !.quantity_multiplier = v.value]
                               ELSE copied
                /\ IF v.raised # "none"
                   THEN /\ messagebox' = Append(messagebox, Box("showerror", v.raised, << >>))
                        /\ pc' = "returned"
                   ELSE /\ messagebox' = messagebox
                        /\ pc' = "save_settings"
    /\ UNCHANGED << data, invalid_rows, gui, disk, columns, draw_vars >>

\* lines 1060-1067: the settings are written to SETTINGS_FILE, or the write
\* fails, is reported and start_process returns
SaveSettings ==
    /\ pc = "save_settings"
    /\ \E written \in BOOLEAN :
          IF written
          THEN /\ disk' = [disk EXCEPT !.settings_written = TRUE, !.settings_json = settings]
               /\ messagebox' = messagebox
               /\ pc' = "read_file"
          ELSE /\ disk' = disk
               /\ messagebox' = Append(messagebox, Box("showerror", "save_failed", << >>))
               /\ pc' = "returned"
    /\ UNCHANGED << settings, data, invalid_rows, gui, columns, draw_vars >>

\* lines 1069-1140: the input file is read into data
ReadFile ==
    /\ pc = "read_file"
    /\ LET failure == IF settings.file_path = NoPath THEN "no_input_file"
                      ELSE IF ~Supported(settings.file_path) THEN "unsupported_format"
                      ELSE IF ~disk.input.readable THEN "read_failed"
                      ELSE "none"
       IN  IF failure # "none"
           THEN /\ messagebox' = Append(messagebox, Box("showerror", failure, << >>))
                /\ pc' = "returned"
                /\ UNCHANGED << data, columns >>
           ELSE /\ data' = disk.input.rows
                /\ columns' = disk.input.columns
                /\ messagebox' = messagebox
                /\ pc' = "check_columns"
    /\ UNCHANGED << settings, invalid_rows, gui, disk, draw_vars >>

\* lines 1142-1153: the missing columns are reported and start_process returns
CheckColumns ==
    /\ pc = "check_columns"
    /\ IF Missing(settings, columns) # << >>
       THEN /\ messagebox' = Append(messagebox, Box("showerror", "missing_columns",
                                                    Missing(settings, columns)))
            /\ pc' = "returned"
       ELSE /\ messagebox' = messagebox
            /\ pc' = "qty_validation"
    /\ UNCHANGED << settings, data, invalid_rows, gui, disk, columns, draw_vars >>

\* lines 1155-1193: the qty column is validated when it is used, the warning
\* lists invalid_rows, and generate_flashcard_pdf is called
ValidateQty ==
    /\ pc = "qty_validation"
    /\ IF settings.use_qty_column
       THEN /\ data' = QtyValidation(data).rows
            /\ invalid_rows' = QtyValidation(data).invalid_rows
            /\ messagebox' = IF QtyValidation(data).invalid_rows # << >>
                             THEN Append(messagebox, Box("showwarning", "qty_defaulted",
                                                         QtyValidation(data).invalid_rows))
                             ELSE messagebox
       ELSE UNCHANGED << data, invalid_rows, messagebox >>
    /\ pc' = "generate_call"
    /\ UNCHANGED << settings, gui, disk, columns, draw_vars >>

NextStart == ReadEntries \/ SaveSettings \/ ReadFile \/ CheckColumns \/ ValidateQty

SpecStart == InitStart /\ [][NextStart]_vars

\* the cell holds a positive integer
IsPositiveInteger(cell) ==
    cell.kind = "number" /\ cell.value2 > 0 /\ cell.value2 % 2 = 0

\* C7: after the qty validation every row's qty is a positive integer: the
\* original cell value when that was a positive integer, else 1; and every row
\* whose value was replaced by 1 is named in a notice of the collected list.
C7_QtyDefaultsReported ==
    (pc = "generate_call" /\ settings.use_qty_column) =>
        \A i \in DOMAIN data :
            /\ data[i].qty \in Nat \ {0}
            /\ IF IsPositiveInteger(data[i].qty_cell)
               THEN 2 * data[i].qty = data[i].qty_cell.value2
               ELSE /\ data[i].qty = 1
                    /\ \E n \in DOMAIN invalid_rows : invalid_rows[n].row = i + 1

\* an empty cell in the second row, behind a valid row: replaced by 1 and
\* named, as row 3 of the sheet, in the only notice
C7_Witness ==
    /\ pc = "generate_call"
    /\ settings.use_qty_column
    /\ Len(data) = 2
    /\ data[1].qty_cell = NumberCell(4)
    /\ data[1].qty = 2
    /\ data[2].qty_cell = TextCell("")
    /\ data[2].qty = 1
    /\ invalid_rows = << Notice(1, "Non-numeric") >>

\* the columns that the claim requires of the data
Required ==
    {settings.front_column, settings.back_column}
    \cup (IF settings.use_qty_column THEN {"qty"} ELSE {})

\* the names listed in the last message box
Listed == {messagebox[Len(messagebox)].list[i] : i \in DOMAIN messagebox[Len(messagebox)].list}

\* C18: start_process never reaches generate_flashcard_pdf when a required
\* column is absent from the loaded data: the front column name, the back
\* column name (whatever their values, an empty name included) and 'qty' when
\* use_qty_column is enabled must each be a column of the data, and every
\* absent one is listed in the reported error; 'qty' is not required when
\* use_qty_column is disabled.
C18_RequiredColumnsPresent ==
    /\ pc \in {"qty_validation", "generate_call"} => Required \subseteq columns
    /\ (/\ pc = "returned"
        /\ messagebox # << >>
        /\ messagebox[Len(messagebox)].what = "missing_columns")
       => (Required \ columns) \subseteq Listed

\* the multiplier as entered, blanks around it dropped
Entered == Strip(gui.quantity_multiplier)

\* the entry is a positive integer written in digits
PositiveDigits(m) ==
    /\ m # << >>
    /\ \A i \in DOMAIN m : IsDigit(m[i])
    /\ \E i \in DOMAIN m : m[i] # "0"

\* the entry is non-positive, non-integer or longer than 4 digits
MultiplierRejected == Entered # << >> /\ (Len(Entered) > 4 \/ ~PositiveDigits(Entered))

\* C19: start_process reaches generate_flashcard_pdf only with
\* quantity_multiplier an integer in 1..9999; an entered multiplier that is
\* non-positive, non-integer or longer than 4 digits produces an error, and the
\* run stops before the settings file is written, the input is read or
\* anything is generated.
C19_MultiplierValidated ==
    /\ pc = "generate_call" => settings.quantity_multiplier \in 1..9999
    /\ (pc # "start_process" /\ gui.numeric_fields_ok /\ MultiplierRejected) =>
          /\ pc = "returned"
          /\ Len(messagebox) = 1
          /\ messagebox[1].box = "showerror"
          /\ messagebox[1].what \in {"multiplier_exceeds_4_digits",
                                     "multiplier_not_an_integer",
                                     "multiplier_not_positive"}
          /\ ~disk.settings_written
          /\ data = << >>
          /\ columns = {}
          /\ canvas = << >>
          /\ ~ENABLED NextStart

\* five digits entered: reported, nothing written, nothing read
C19_Witness ==
    /\ pc = "returned"
    /\ gui.quantity_multiplier = << "2", "2", "2", "2", "2" >>
    /\ messagebox = << Box("showerror", "multiplier_exceeds_4_digits", << >>) >>
    /\ ~disk.settings_written
    /\ data = << >>

\* ------------------------------------------------------------------ C21
\* the geometry check has passed
GeometryPassed == GeometryDone /\ layout # NoLayout /\ layout.raised = "none"

\* C21: whenever the geometry check passes, cards_per_col is the floor of
\* (page_h - margin_top - margin_bottom) / card_height, the largest integer
\* n with n * card_height + margin_top + margin_bottom <= page_h, and
\* cards_per_page is cards_per_row * cards_per_col.
C21_RowsPerPage ==
    GeometryPassed =>
        LET s == settings
            n == layout.cards_per_col
        IN  /\ n = (s.page_h - s.margin_top - s.margin_bottom) \div s.card_height
            /\ n * s.card_height + s.margin_top + s.margin_bottom <= s.page_h
            /\ (n + 1) * s.card_height + s.margin_top + s.margin_bottom > s.page_h
            /\ layout.cards_per_page = s.cards_per_row * n

\* ------------------------------------------------------------------ C22
\* the edges of the card grid on a page, in points from the lower left corner
GridLeft   == layout.offset_left_pt
GridRight  == layout.offset_left_pt + settings.cards_per_row * mm(settings.card_width)
GridTop    == mm(settings.page_h) - layout.offset_top_pt
GridBottom == GridTop - layout.cards_per_col * mm(settings.card_height)

CutLines == {i \in 1..Len(canvas) : canvas[i].op = "line"}

\* a line on a card boundary that spans the grid and no more
OnGrid(l) ==
    \/ /\ l.x = l.w
       /\ \E i \in 0..settings.cards_per_row : l.x = GridLeft + i * mm(settings.card_width)
       /\ {l.y, l.h} = {GridBottom, GridTop}
    \/ /\ l.y = l.h
       /\ \E j \in 0..layout.cards_per_col : l.y = GridTop - j * mm(settings.card_height)
       /\ {l.x, l.w} = {GridLeft, GridRight}

\* C22: for every valid configuration, unequal margins included, every cut
\* line lies on a card boundary and spans exactly the extent of the grid: a
\* vertical line from the top to the bottom of the grid, a horizontal line
\* from its left to its right edge.
C22_CutLinesSpanGrid ==
    GeometryPassed => \A i \in CutLines : OnGrid(canvas[i])

\* ------------------------------------------------------------------ C23
TextLines == {i \in 1..Len(canvas) : canvas[i].op = "text"}

\* the operations of the sheet that is being drawn.  The canvas only grows,
\* and the operations of every earlier sheet were the newest ones in an
\* earlier state, so that a property of the newest operations in every state
\* is a property of all operations.
Newest == {i \in 1..Len(canvas) : canvas[i].sheet = Len(sheets) - 1}

\* the background of the card that operation i belongs to
BackgroundOf(i) ==
    i - (CHOOSE d \in 0..(i - 1) :
            /\ canvas[i - d].op = "background"
            /\ \A k \in (i - d + 1)..i : canvas[k].op # "background")

\* the first and the last line of the text block that line i belongs to
FirstLine(i) ==
    i - (CHOOSE d \in 0..(i - 1) :
            /\ \A m \in (i - d)..i : canvas[m].op = "text"
            /\ i - d > 1 => canvas[i - d - 1].op # "text")

LastLine(i) ==
    CHOOSE k \in i..Len(canvas) : /\ \A m \in i..k : canvas[m].op = "text"
                                  /\ k < Len(canvas) => canvas[k + 1].op # "text"

\* the height of the bar which of the card of line i, 0 without the bar
BarHeight(i, which) ==
    IF \E k \in BackgroundOf(i)..i : canvas[k].op = which THEN mm(100) ELSE 0

LineHeight(side) == (SideSettings(settings, side).font_size * 12) \div 10

\* twice the top and twice the bottom of the text block of line i: the
\* baseline of the last line and a line height above that of the first
BlockTop2(i)    == canvas[FirstLine(i)].y + 2 * LineHeight(canvas[i].side)
BlockBottom2(i) == canvas[LastLine(i)].y

\* twice the bottom and twice the top of the region between the bars
RegionBottom2(i) == 2 * canvas[BackgroundOf(i)].y + 2 * BarHeight(i, "bar_bottom")
RegionTop2(i) ==
    2 * canvas[BackgroundOf(i)].y + 2 * canvas[BackgroundOf(i)].h - 2 * BarHeight(i, "bar_top")

\* C23: for every card drawn and every combination of bars, the text block
\* is centred vertically in the available text box (the midpoint of the
\* block is the midpoint of the region between the active bars), and every
\* line is centred horizontally on the midpoint of the card width.
C23_TextCentred ==
    \A i \in TextLines :
        /\ BlockTop2(i) + BlockBottom2(i) = RegionBottom2(i) + RegionTop2(i)
        /\ canvas[i].x = 2 * canvas[BackgroundOf(i)].x + canvas[BackgroundOf(i)].w

\* ------------------------------------------------------------------ C24
\* the operations that draw a card
CardOps == {"background", "bar_top", "bar_bottom", "text"}

\* the cells of a side of sheet k, none before the side is drawn
CellsOf(k, side) == IF side = "front" THEN sheets[k].front ELSE sheets[k].back

\* the lower left corner of the cell at position pos of a page (from 0)
CellX(pos) == layout.offset_left_pt + (pos % settings.cards_per_row) * mm(settings.card_width)
CellY(pos) ==
    mm(settings.page_h) - layout.offset_top_pt
        - ((pos \div settings.cards_per_row) + 1) * mm(settings.card_height)

\* operation o draws into the cell at position pos: a rectangle that starts
\* in the cell, or a text positioned in it (its x and y are doubled)
DrawsInto(o, pos) ==
    \/ /\ o.op \in {"background", "bar_top", "bar_bottom"}
       /\ CellX(pos) <= o.x /\ o.x < CellX(pos) + mm(settings.card_width)
       /\ CellY(pos) <= o.y /\ o.y < CellY(pos) + mm(settings.card_height)
    \/ /\ o.op = "text"
       /\ 2 * CellX(pos) <= o.x /\ o.x < 2 * (CellX(pos) + mm(settings.card_width))
       /\ 2 * CellY(pos) <= o.y /\ o.y < 2 * (CellY(pos) + mm(settings.card_height))

\* the empty cells of the sheet that is being drawn
EmptyCells ==
    {c \in {k \in 1..Len(sheets) : k = Len(sheets)} \X {"front", "back"}
               \X (0..(layout.cards_per_page - 1)) :
        /\ c[3] < Len(CellsOf(c[1], c[2]))
        /\ CellsOf(c[1], c[2])[c[3] + 1] = None}

\* C24: for a cell of a page that holds no card (a padding cell), no drawing
\* operation is issued, neither background nor bar nor text, on the front
\* and on the back page.
C24_EmptyCellsUntouched ==
    \A c \in EmptyCells : \A i \in Newest :
        (canvas[i].op \in CardOps /\ canvas[i].sheet = c[1] - 1 /\ canvas[i].side = c[2])
            => ~DrawsInto(canvas[i], c[3])

\* a run that has ended, with a sheet whose front and back have an empty cell
\* next to cards that were drawn with text
C24_Witness ==
    /\ pc = "done"
    /\ \E c \in EmptyCells, e \in EmptyCells :
          /\ c[1] = e[1] /\ c[2] = "front" /\ e[2] = "back"
          /\ \E i \in TextLines : canvas[i].sheet = c[1] - 1 /\ canvas[i].side = "front"
          /\ \E i \in TextLines : canvas[i].sheet = c[1] - 1 /\ canvas[i].side = "back"

\* ------------------------------------------------------------------ C25
\* operations i and j belong to the same card
SameCard(i, j) ==
    /\ canvas[i].sheet = canvas[j].sheet /\ canvas[i].side = canvas[j].side
    /\ canvas[i].idx = canvas[j].idx

\* operation i comes right behind an operation of its card that is one of ops
Behind(i, ops) == i > 1 /\ canvas[i - 1].op \in ops /\ SameCard(i - 1, i)

\* the bar which is enabled on the side
BarEnabled(side, which) ==
    IF which = "bar_top" THEN SideSettings(settings, side).bar_top
    ELSE SideSettings(settings, side).bar_bottom

\* C25: for each cell that is not empty the operations are issued in the
\* order background, enabled color bars, text lines: a bar is never drawn
\* before the background of its card nor behind a text line of it.  The top
\* bar comes right behind the background, the bottom bar right behind the
\* background or the top bar, a text line right behind the background, a
\* bar or a text line, always of the same card; only enabled bars are drawn,
\* and the enabled ones right behind the background.
C25_DrawOrder ==
    \A i \in Newest :
        /\ canvas[i].op = "bar_top" =>
              (Behind(i, {"background"}) /\ BarEnabled(canvas[i].side, "bar_top"))
        /\ canvas[i].op = "bar_bottom" =>
              (Behind(i, {"background", "bar_top"}) /\ BarEnabled(canvas[i].side, "bar_bottom"))
        /\ canvas[i].op = "text" =>
              Behind(i, {"background", "bar_top", "bar_bottom", "text"})
        /\ canvas[i].op = "background" =>
              /\ BarEnabled(canvas[i].side, "bar_top") =>
                    (i < Len(canvas) /\ canvas[i + 1].op = "bar_top")
              /\ BarEnabled(canvas[i].side, "bar_bottom") =>
                    \E k \in (i + 1)..Min(i + 2, Len(canvas)) :
                        canvas[k].op = "bar_bottom" /\ Behind(k, {"background", "bar_top"})

\* a finished run with a card of two bars and two lines of text
C25_Witness ==
    /\ pc = "done"
    /\ \E i \in TextLines :
          /\ BarHeight(i, "bar_top") # 0 /\ BarHeight(i, "bar_bottom") # 0
          /\ LastLine(i) > FirstLine(i)

\* ------------------------------------------------------------------ C26
\* C26: with truncate enabled wrap_text returns normally, with overflowed
\* false, for every text (empty and blank texts included) and every
\* max_lines >= 0 (0 included), so that a generation with truncate never
\* aborts for a reason of text fit.
C26_TruncateNeverFails ==
    (pc \in {"wrap_done", "wrap_raised"} /\ wrap_args.truncate /\ wrap_args.max_lines >= 0) =>
        (pc = "wrap_done" /\ ~wrap_ret.overflowed)

\* ------------------------------------------------------------------ C27
\* the backgrounds of record v drawn on a side of sheet p
BackgroundsOf(p, side, v) ==
    {i \in DOMAIN canvas :
        /\ canvas[i].op = "background"
        /\ canvas[i].sheet = p /\ canvas[i].side = side /\ canvas[i].idx = v}

\* the card instances of sheet p: the slice of card_indices of that sheet
InstancesOf(p) ==
    Slice(card_indices, p * layout.cards_per_page, (p + 1) * layout.cards_per_page)

Backgrounds == {i \in DOMAIN canvas : canvas[i].op = "background"}

\* C27: in a completed run every card instance is drawn exactly once on a
\* front page and exactly once on a back page, and its back is on the sheet
\* of its front: each side of a sheet shows the instances of that sheet, each
\* in a place of its own, and nothing else.
C27_EachCardOnce ==
    pc = "done" =>
        LET pages == NumPages(Len(card_indices), layout.cards_per_page)
        IN  /\ \A p \in 0..(pages - 1), side \in {"front", "back"}, v \in 0..(Len(data) - 1) :
                  Cardinality(BackgroundsOf(p, side, v)) = Count(InstancesOf(p), v)
            /\ \A i \in Backgrounds :
                  /\ canvas[i].sheet \in 0..(pages - 1)
                  /\ canvas[i].idx \in 0..(Len(data) - 1)
                  /\ \A j \in Backgrounds :
                        (/\ i # j
                         /\ canvas[i].sheet = canvas[j].sheet
                         /\ canvas[i].side = canvas[j].side)
                        => (canvas[i].x # canvas[j].x \/ canvas[i].y # canvas[j].y)

\* a completed run of two sheets or more, the last one padded, with a record
\* that has several instances
C27_Witness ==
    /\ pc = "done"
    /\ Len(card_indices) > layout.cards_per_page
    /\ Len(card_indices) % layout.cards_per_page # 0
    /\ \E v \in 0..(Len(data) - 1) : Count(card_indices, v) > 1

\* ------------------------------------------------------------------ C28
\* two rectangles that share no more than an edge
Disjoint(a, b) ==
    \/ a.x + a.w <= b.x \/ b.x + b.w <= a.x
    \/ a.y + a.h <= b.y \/ b.y + b.h <= a.y

\* a rectangle within the margins of the page
InsideMargins(r) ==
    /\ mm(settings.margin_left) <= r.x
    /\ r.x + r.w <= mm(settings.page_w) - mm(settings.margin_right)
    /\ mm(settings.margin_bottom) <= r.y
    /\ r.y + r.h <= mm(settings.page_h) - mm(settings.margin_top)

RECURSIVE WordsOfLines(_)
WordsOfLines(explicit) ==
    IF explicit = << >> THEN {}
    ELSE {SplitWords(Head(explicit), << >>)[k] :
             k \in 1..Len(SplitWords(Head(explicit), << >>))}
         \cup WordsOfLines(Tail(explicit))

TextWords == WordsOfLines(SplitLF(ReplaceCRLF(wrap_args.text), << >>))

TooWide(line) == stringWidth(line, wrap_args.font_size) > wrap_args.max_width_pt

\* C29: with truncate disabled, every returned line of two or more words is
\* no wider than max_width_pt; a line that is wider consists of a single
\* word of the text, which stands on a line of its own, neither split nor
\* dropped: the returned lines are the first lines of the greedy wrap, and
\* without overflow every word too wide for the width is one of them.
C29_WideLineIsOneWord ==
    (pc = "wrap_done" /\ ~wrap_args.truncate) =>
        /\ \A k \in 1..Len(wrap_ret.lines) :
              LET line == wrap_ret.lines[k]
              IN  /\ Len(SplitWords(line, << >>)) >= 2 => ~TooWide(line)
                  /\ TooWide(line) => (line \in TextWords /\ SplitWords(line, << >>) = << line >>)
        /\ wrap_ret.lines = SubSeq(FullWrap, 1, Len(wrap_ret.lines))
        /\ ~wrap_ret.overflowed =>
              \A w \in TextWords :
                  TooWide(w) => \E k \in 1..Len(wrap_ret.lines) : wrap_ret.lines[k] = w

\* a word too wide for the width returned on a line of its own, the word
\* behind it on the next line
C29_Witness ==
    /\ pc = "wrap_done"
    /\ ~wrap_args.truncate
    /\ Len(wrap_ret.lines) >= 2
    /\ TooWide(wrap_ret.lines[1])
    /\ ~TooWide(wrap_ret.lines[2]) /\ wrap_ret.lines[2] # << >>

\* ------------------------------------------------------------------ C30
\* max_lines of the wrap_text call for the card of line i
MaxLinesOf(i) == CardWrapArgs(settings, data, canvas[i].idx, canvas[i].side).max_lines

\* C30: for every card drawn with max_lines >= 1 and every combination of
\* bars, the vertical extent of the text block, len(lines) * line_height
\* placed by text_y, lies inside the card rectangle and does not intersect
\* the 5 mm band of an enabled bar.
C30_TextBlockClearOfBars ==
    \A i \in TextLines \cap Newest :
        MaxLinesOf(i) >= 1 =>
            /\ 2 * canvas[BackgroundOf(i)].y <= BlockBottom2(i)
            /\ BlockTop2(i) <= 2 * (canvas[BackgroundOf(i)].y + canvas[BackgroundOf(i)].h)
            /\ RegionBottom2(i) <= BlockBottom2(i)
            /\ BlockTop2(i) <= RegionTop2(i)

\* a finished run with a text of two lines below a top bar alone and a text
\* between two bars
C30_Witness ==
    /\ pc = "done"
    /\ \E i \in TextLines :
          /\ MaxLinesOf(i) >= 1
          /\ BarHeight(i, "bar_top") # 0 /\ BarHeight(i, "bar_bottom") = 0
          /\ LastLine(i) > FirstLine(i)
    /\ \E i \in TextLines :
          BarHeight(i, "bar_top") # 0 /\ BarHeight(i, "bar_bottom") # 0

====
